---- MODULE Spec2Model ----
(***************************************************************************)
(* Model of pricing_schedule_check.py: the checkpointed ACN sweep, the      *)
(* odd-ones-out ledger, the remediation loop and the --retry flow.          *)
(*                                                                          *)
(* Conventions.  A Python value that may be None is a sequence of at most   *)
(* one element: None is <<>>, a present value x is <<x>>.  A factor f is     *)
(* kept in tenths (0.5 is 5).  A file is a record with a field kind:        *)
(* "absent", "partial" (opened with 'w' and not completely written, so     *)
(* json.load fails on it) or "json" with its content.  Timestamps taken     *)
(* with datetime.now() are values of the logical clock now.                 *)
(***************************************************************************)
EXTENDS Integers, Sequences, FiniteSets, TLC

\* ------------------------------------------------------------------ bounds
\* Number of timestamps the ledger can take (upserts and status updates).
MaxClock == 3

\* --------------------------------------------------------------- constants
\* expected_f=0.5 of check_schedule_values, in tenths.
EXPECTED_F == 5

None == <<>>
Some(x) == <<x>>
Range(s) == {s[n] : n \in DOMAIN s}

\* ------------------------------------------------------- the outside world
\* Rows of the site directory (acn_id, acc_id), as the API lists them.
SiteData ==
    << [acn_id |-> "0051", acc_id |-> "12"],
       [acn_id |-> "0051", acc_id |-> "09"],
       [acn_id |-> "0051", acc_id |-> "09"],
       [acn_id |-> "0077", acc_id |-> "03"] >>

\* The station dashboard of an ACN/ACC pair: the values of the returned dict.
StationData(acn_id, acc_id) ==
    IF acn_id = "0051" /\ acc_id = "09"
      THEN << [pfid |-> "0051-09-01-01", evse_type |-> "LiteON"] >>
    ELSE IF acn_id = "0051" /\ acc_id = "12"
      THEN << [pfid |-> "0051-12-01-01", evse_type |-> "LiteON"] >>
    ELSE IF acn_id = "0077" /\ acc_id = "03"
      THEN << [pfid |-> "0077-03-01-01", evse_type |-> "Delta"] >>
    ELSE IF acn_id = "0060" /\ acc_id = "02"
      THEN << [pfid |-> "0060-02-01-02", evse_type |-> "LiteON"],
              [pfid |-> "0060-02-01-021", evse_type |-> "LiteON"],
              [pfid |-> "0060-02-011-01", evse_type |-> "LiteON"],
              [pfid |-> "0060-02-02-02", evse_type |-> "Delta"],
              [pfid |-> "", evse_type |-> "LiteON"] >>
    ELSE << >>

\* Values extract_pricing_schedule can return for a station: None (read
\* failed or malformed), a schedule with every f = 0.5, one with f = 0.3.
Schedules ==
    { None,
      Some(<< [t |-> 0, f |-> 5] >>),
      Some(<< [t |-> 0, f |-> 3] >>) }

\* Scopes given on the command line.
SweepAcns == { "0051", "0077" }
DeepScopes == { << "0051", "09" >> }

\* ----------------------------------------------------- write-config replies
\* What set_configuration returns: json.loads of the reply, or {"error": ..}
\* when the call fails.  A reply is a mapping or not; a mapping may hold a
\* top-level "error" and a "natsResponse", which is a dict or something else.
NotMapping == [mapping |-> FALSE]
Reply(err, nats) == [mapping |-> TRUE, error |-> err, natsResponse |-> nats]
NatsAbsent == [kind |-> "absent"]
NatsStr(s) == [kind |-> "str", text |-> s]
NatsDict(d) == [kind |-> "dict", fields |-> d]

CallFailure == Reply(Some("curl failed"), NatsAbsent)

NatsKeys == { "status", "error", "message", "reason" }
NatsValues(key) ==
    IF key = "status" THEN { "Accepted", "Rejected" }
    ELSE IF key = "error" THEN { "e-detail" }
    ELSE IF key = "message" THEN { "m-detail" }
    ELSE { "busy" }
NatsDicts ==
    UNION { { d \in [S -> UNION { NatsValues(key) : key \in NatsKeys }] :
                \A key \in S : d[key] \in NatsValues(key) }
            : S \in SUBSET NatsKeys }

\* Every reply shape of the write call.
AllResults ==
    { NotMapping } \cup
    { Reply(err, nats) :
        err \in { None, Some("curl failed") },
        nats \in { NatsAbsent, NatsStr(""), NatsStr("timeout") }
                 \cup { NatsDict(d) : d \in NatsDicts } }

\* The replies the sweep and retry flows are explored with.
FlowResults ==
    { NotMapping,
      CallFailure,
      Reply(None, NatsAbsent),
      Reply(None, NatsDict([status |-> "Accepted"])),
      Reply(Some("curl failed"), NatsDict([status |-> "Accepted"])),
      Reply(None, NatsDict([status |-> "Rejected", reason |-> "busy"])) }

\* ---------------------------------------------------------- pure functions
\* parse_pfid_input, on the parts left after splitting at blanks and dashes.
parse_pfid_input(parts) ==
    [ acn |-> IF Len(parts) >= 1 THEN Some(parts[1]) ELSE None,
      acc |-> IF Len(parts) >= 2 THEN Some(parts[2]) ELSE None,
      acg |-> IF Len(parts) >= 3 THEN Some(parts[3]) ELSE None,
      acs |-> IF Len(parts) >= 4 THEN Some(parts[4]) ELSE None,
      mode |-> IF Len(parts) >= 4 THEN Some("acn-acc-acg-acs")
               ELSE IF Len(parts) = 3 THEN Some("acn-acc-acg")
               ELSE IF Len(parts) = 2 THEN Some("acn-acc")
               ELSE IF Len(parts) = 1 THEN Some("acn-only")
               ELSE None ]

\* An f-string's rendering of an optional identifier.
Fmt(opt) == IF opt = None THEN "None" ELSE opt[1]

get_site_key(acn_id, acc_id, acg_id, acs_id, mode) ==
    IF mode = Some("acn-only") \/ (acc_id = None /\ acg_id = None /\ acs_id = None)
      THEN acn_id
    ELSE IF mode = Some("acn-acc") \/ (acg_id = None /\ acs_id = None)
      THEN acn_id \o "-" \o Fmt(acc_id)
    ELSE IF mode = Some("acn-acc-acg") \/ acs_id = None
      THEN acn_id \o "-" \o Fmt(acc_id) \o "-" \o Fmt(acg_id)
    ELSE acn_id \o "-" \o Fmt(acc_id) \o "-" \o Fmt(acg_id) \o "-" \o Fmt(acs_id)

\* ord() of a digit.
ord(char) == 48 + CHOOSE d \in 0..9 : SubSeq("0123456789", d + 1, d + 1) = char

\* a < b on str: the first differing character decides, a proper prefix
\* comes first.
RECURSIVE str_lt(_, _)
str_lt(a, b) ==
    IF a = "" THEN b # ""
    ELSE IF b = "" THEN FALSE
    ELSE IF SubSeq(a, 1, 1) = SubSeq(b, 1, 1)
      THEN str_lt(SubSeq(a, 2, Len(a)), SubSeq(b, 2, Len(b)))
    ELSE ord(SubSeq(a, 1, 1)) < ord(SubSeq(b, 1, 1))

\* sorted() of a set of str.
sorted(strings) ==
    [n \in 1..Cardinality(strings) |->
        CHOOSE x \in strings : Cardinality({ y \in strings : str_lt(y, x) }) = n - 1]

\* The ACC ids of the ACN in the order of their first row.
get_accs_for_acn_in_row_order(site_data_rows, acn_id) ==
    LET first(n) == /\ site_data_rows[n].acn_id = acn_id
                    /\ site_data_rows[n].acc_id # ""
                    /\ \A m \in 1..(n - 1) :
                          ~(/\ site_data_rows[m].acn_id = acn_id
                            /\ site_data_rows[m].acc_id = site_data_rows[n].acc_id)
        kept == { n \in DOMAIN site_data_rows : first(n) }
    IN  [k \in 1..Cardinality(kept) |->
            site_data_rows[CHOOSE n \in kept :
                              Cardinality({ m \in kept : m < n }) = k - 1].acc_id]

\* get_accs_for_acn; an acc_id that is missing or empty reads "" here.
get_accs_for_acn(site_data_rows, acn_id) ==
    LET found_accs == { site_data_rows[n].acc_id :
                          n \in { m \in DOMAIN site_data_rows :
                                    /\ site_data_rows[m].acn_id = acn_id
                                    /\ site_data_rows[m].acc_id # "" } }
    IN  sorted(found_accs)

check_schedule_values(schedule) ==
    IF schedule = None \/ schedule[1] = << >>
      THEN [all_correct |-> "None", mismatches |-> << >>]
      ELSE LET mismatches == SelectSeq(schedule[1], LAMBDA e : e.f # EXPECTED_F)
           IN  [all_correct |-> IF Len(mismatches) = 0 THEN "True" ELSE "False",
                mismatches |-> mismatches]

\* json.loads(result.stdout) of fetch_station_data, {} on a failed call or
\* an unparseable listing (the dict's values, in order).
fetch_station_data(acn_id, acc_id, ok) ==
    IF ok THEN StationData(acn_id, acc_id) ELSE << >>

\* process_stations for an ACN/ACC scope; reads[n] is the schedule
\* extracted for the n-th LiteON station.
LiteonEntries(stations) ==
    SelectSeq(stations, LAMBDA e : e.pfid # "" /\ e.evse_type = "LiteON")

\* process_stations returning a fresh list when the scope has no station to
\* check, instead of the results gathered so far.
process_stations_fresh(acn_id, acc_id, results, stations, reads) ==
    LET liteon_entries == LiteonEntries(stations)
    IN  IF stations = << >> \/ liteon_entries = << >>
          THEN << >>
          ELSE results \o [n \in 1..Len(liteon_entries) |->
                  [ pfid |-> liteon_entries[n].pfid, acn_id |-> acn_id, acc_id |-> acc_id,
                    schedule |-> reads[n], enabled |-> TRUE,
                    all_correct |-> check_schedule_values(reads[n]).all_correct,
                    mismatches |-> check_schedule_values(reads[n]).mismatches ]]

process_stations(acn_id, acc_id, results, stations, reads) ==
    LET liteon_entries == LiteonEntries(stations)
        one(n) ==
            LET checked == check_schedule_values(reads[n])
            IN  [ pfid |-> liteon_entries[n].pfid,
                  acn_id |-> acn_id,
                  acc_id |-> acc_id,
                  schedule |-> reads[n],
                  enabled |-> TRUE,
                  all_correct |-> checked.all_correct,
                  mismatches |-> checked.mismatches ]
    IN  IF stations = << >> \/ liteon_entries = << >>
          THEN results
          ELSE results \o [n \in 1..Len(liteon_entries) |-> one(n)]

\* print_results: the odd ones out and the correct ones.
odd_ones_of(results) == SelectSeq(results, LAMBDA r : r.all_correct = "False")
\* print_results taking every station with a verdict for a correct one.
correct_of_any_verdict(results) == SelectSeq(results, LAMBDA r : r.all_correct # "None")
correct_of(results) == SelectSeq(results, LAMBDA r : r.all_correct = "True")

get_correct_schedule(correct_stations) ==
    IF correct_stations # << >> /\ correct_stations[1].schedule # None
         /\ correct_stations[1].schedule[1] # << >>
      THEN correct_stations[1].schedule[1]
      ELSE << [t |-> 0, f |-> 5], [t |-> 4, f |-> 5], [t |-> 8, f |-> 5],
              [t |-> 16, f |-> 5], [t |-> 20, f |-> 5] >>

\* ------------------------------------------------------------ the ledger
\* pricing_odd_ones_out.json is the mapping "sites": site key -> entry.
EmptyDict == [x \in {} |-> ""]
EmptyLedger == [x \in {} |-> [stations |-> << >>]]

\* save_odd_ones_out carrying over the status a station of the same pfid
\* had in the entry being replaced.
save_odd_ones_out_keeping_status(all_data, odd, schedule, acn_arg, acc_arg, acg_id, acs_id, mode_arg, t) ==
    LET key == get_site_key(Fmt(acn_arg), acc_arg, acg_id, acs_id, mode_arg)
        old == IF key \in DOMAIN all_data THEN all_data[key].stations ELSE << >>
        status_of(pfid) ==
            IF \E n \in DOMAIN old : old[n].pfid = pfid
              THEN old[CHOOSE n \in DOMAIN old : old[n].pfid = pfid].update_status
              ELSE "pending"
        station(r) ==
            [ pfid |-> r.pfid, acn_id |-> r.acn_id, acc_id |-> r.acc_id,
              current_schedule |-> r.schedule, mismatches |-> r.mismatches,
              update_status |-> status_of(r.pfid),
              rejection_reason |-> None, last_attempt |-> None ]
        entry ==
            [ mode |-> mode_arg[1], acn_id |-> acn_arg, acc_id |-> acc_arg,
              saved_at |-> t, last_updated |-> t, correct_schedule |-> schedule,
              stations |-> [n \in 1..Len(odd) |-> station(odd[n])] ]
    IN  [k \in DOMAIN all_data \cup {key} |-> IF k = key THEN entry ELSE all_data[k]]

save_odd_ones_out(all_data, odd, schedule, acn_arg, acc_arg, acg_id, acs_id, mode_arg, t) ==
    LET acn_id == IF acn_arg = None /\ odd # << >> THEN Some(odd[1].acn_id) ELSE acn_arg
        accs_seen == { r.acc_id : r \in Range(odd) }
        infer == acc_arg = None /\ odd # << >> /\ mode_arg # Some("acn-only")
        acc_id == IF infer /\ Cardinality(accs_seen) = 1
                    THEN Some(CHOOSE a \in accs_seen : TRUE) ELSE acc_arg
        mode == IF infer /\ mode_arg = None
                  THEN (IF Cardinality(accs_seen) = 1 THEN Some("acn-acc")
                        ELSE Some("acn-only"))
                  ELSE mode_arg
        key == get_site_key(Fmt(acn_id), acc_id, acg_id, acs_id, mode)
        station(r) ==
            [ pfid |-> r.pfid,
              acn_id |-> r.acn_id,
              acc_id |-> r.acc_id,
              current_schedule |-> r.schedule,
              mismatches |-> r.mismatches,
              update_status |-> "pending",
              rejection_reason |-> None,
              last_attempt |-> None ]
        entry ==
            [ mode |-> IF mode # None THEN mode[1]
                       ELSE IF acc_id # None THEN "acn-acc" ELSE "acn-only",
              acn_id |-> acn_id,
              acc_id |-> acc_id,
              saved_at |-> t,
              last_updated |-> t,
              correct_schedule |-> schedule,
              stations |-> [n \in 1..Len(odd) |-> station(odd[n])] ]
    IN  [k \in DOMAIN all_data \cup {key} |-> IF k = key THEN entry ELSE all_data[k]]

\* update_odd_ones_status without the site_key argument passed on: the station
\* is rewritten in every site that lists it.
update_odd_ones_status_in_every_site(all_data, pfid, status, rejection_reason, key, t) ==
    [k \in DOMAIN all_data |->
        LET stations == all_data[k].stations
        IN  IF \E n \in DOMAIN stations : stations[n].pfid = pfid
              THEN [all_data[k] EXCEPT
                      !.last_updated = t,
                      !.stations = [n \in DOMAIN stations |->
                          IF stations[n].pfid = pfid
                            THEN [stations[n] EXCEPT !.update_status = status,
                                                     !.rejection_reason = rejection_reason,
                                                     !.last_attempt = Some(t)]
                            ELSE stations[n]]]
              ELSE all_data[k]]

\* update_odd_ones_status with the site_key argument given (every caller
\* passes it): the first station of that site with the pfid is rewritten.
update_odd_ones_status(all_data, pfid, status, rejection_reason, key, t) ==
    IF key \notin DOMAIN all_data
      THEN all_data
      ELSE LET stations == all_data[key].stations
               hits == { n \in DOMAIN stations : stations[n].pfid = pfid }
           IN  IF hits = {}
                 THEN all_data
                 ELSE LET n == CHOOSE m \in hits : \A o \in hits : m <= o
                      IN  [all_data EXCEPT ![key] =
                            [@ EXCEPT !.last_updated = t,
                                      !.stations = [@ EXCEPT ![n] =
                                          [@ EXCEPT !.update_status = status,
                                                    !.rejection_reason = rejection_reason,
                                                    !.last_attempt = Some(t)]]]]

all_accepted(stations) ==
    \A n \in DOMAIN stations : stations[n].update_status = "accepted"

\* remove_completed_site testing any() where the code tests all().
remove_site_with_any_accepted(all_data, key) ==
    IF key \notin DOMAIN all_data
      THEN all_data
    ELSE IF \E n \in DOMAIN all_data[key].stations :
              all_data[key].stations[n].update_status = "accepted"
      THEN [k \in DOMAIN all_data \ {key} |-> all_data[k]]
    ELSE all_data

remove_completed_site(all_data, key) ==
    IF key \notin DOMAIN all_data
      THEN all_data
    ELSE IF all_accepted(all_data[key].stations)
      THEN [k \in DOMAIN all_data \ {key} |-> all_data[k]]
    ELSE all_data

CountStatus(stations, status) ==
    Cardinality({ n \in DOMAIN stations : stations[n].update_status = status })

\* get_sites_with_pending_work, l.512-519: the sites with a pending, rejected
\* or errored station.
sites_with_work_of(all_data) ==
    { k \in DOMAIN all_data :
        CountStatus(all_data[k].stations, "pending")
        + CountStatus(all_data[k].stations, "rejected")
        + CountStatus(all_data[k].stations, "error") > 0 }

\* get_sites_with_pending_work, l.520-534: the summary of one site.
site_summary(all_data, k) ==
    LET stations == all_data[k].stations
        pending == CountStatus(stations, "pending")
        rejected == CountStatus(stations, "rejected")
        errored == CountStatus(stations, "error")
    IN  [ site_key |-> k,
          acn_id |-> all_data[k].acn_id,
          acc_id |-> all_data[k].acc_id,
          mode |-> all_data[k].mode,
          saved_at |-> all_data[k].saved_at,
          last_updated |-> all_data[k].last_updated,
          pending |-> pending,
          rejected |-> rejected,
          errored |-> errored,
          accepted |-> CountStatus(stations, "accepted"),
          total_pending |-> pending + rejected + errored,
          total_stations |-> Len(stations) ]

\* The listing sorted by last_updated without reverse=True.
get_sites_with_pending_work_oldest_first(all_data) ==
    LET work == sites_with_work_of(all_data)
        rank(k) == 1 + Cardinality({ o \in work :
                        all_data[o].last_updated < all_data[k].last_updated })
    IN  [n \in 1..Cardinality(work) |->
            site_summary(all_data, CHOOSE k \in work : rank(k) = n)]

\* get_sites_with_pending_work: the summaries of the sites with pending,
\* rejected or errored stations, most recently updated first (no two entries
\* carry the same last_updated: every ledger write reads the clock anew).
get_sites_with_pending_work(all_data) ==
    LET work == sites_with_work_of(all_data)
        rank(k) == 1 + Cardinality({ o \in work :
                        all_data[o].last_updated > all_data[k].last_updated })
    IN  [n \in 1..Cardinality(work) |->
            site_summary(all_data, CHOOSE k \in work : rank(k) = n)]

\* The retry batch taken to be every station of the site.
to_retry_everything(stations) == stations

\* The retry batch without the errored stations.
to_retry_without_errored(stations) ==
    SelectSeq(stations, LAMBDA s : s.update_status = "pending")
    \o SelectSeq(stations, LAMBDA s : s.update_status = "rejected")

\* pending + rejected + errored of main_retry_site.
to_retry_of(stations) ==
    SelectSeq(stations, LAMBDA s : s.update_status = "pending")
    \o SelectSeq(stations, LAMBDA s : s.update_status = "rejected")
    \o SelectSeq(stations, LAMBDA s : s.update_status = "error")

\* ------------------------------------------- outcome of one corrective write
NatsOrder == << "status", "error", "message", "reason" >>
RECURSIVE JoinPairs(_, _)
JoinPairs(d, keys) ==
    IF keys = << >> THEN ""
    ELSE LET pair == "\"" \o keys[1] \o "\": \"" \o d[keys[1]] \o "\""
         IN  IF Len(keys) = 1 THEN pair ELSE pair \o ", " \o JoinPairs(d, Tail(keys))

\* json.dumps of a natsResponse dict.
json_dumps(d) ==
    "{" \o JoinPairs(d, SelectSeq(NatsOrder, LAMBDA key : key \in DOMAIN d)) \o "}"

\* write_outcome looking for the reason field before error and message.
write_outcome_reason_first(result) ==
    LET nats == result.natsResponse
        d == IF nats.kind = "absent" THEN EmptyDict ELSE nats.fields
        status == IF "status" \in DOMAIN d THEN d["status"] ELSE "Unknown"
        rejection_reason ==
            IF "reason" \in DOMAIN d THEN d["reason"]
            ELSE IF "error" \in DOMAIN d THEN d["error"]
            ELSE IF "message" \in DOMAIN d THEN d["message"]
            ELSE json_dumps(d)
        first ==
            IF nats.kind \in { "absent", "dict" }
              THEN IF status = "Accepted"
                     THEN [status |-> "accepted", reason |-> None, acc |-> 1, rej |-> 0]
                     ELSE [status |-> "rejected", reason |-> Some(rejection_reason),
                           acc |-> 0, rej |-> 1]
              ELSE [status |-> "error",
                    reason |-> Some(IF nats.text # "" THEN nats.text ELSE "Unknown error"),
                    acc |-> 0, rej |-> 1]
        second ==
            IF result.error # None
              THEN << [status |-> "error", reason |-> result.error] >>
              ELSE << >>
    IN  [ calls |-> << [status |-> first.status, reason |-> first.reason] >> \o second,
          acc |-> first.acc,
          rej |-> first.rej ]

\* The update_odd_ones_status calls (status, reason) one reply leads to, in
\* order, and what it adds to accepted_count and rejected_count.
write_outcome(result) ==
    LET nats == result.natsResponse
        d == IF nats.kind = "absent" THEN EmptyDict ELSE nats.fields
        status == IF "status" \in DOMAIN d THEN d["status"] ELSE "Unknown"
        rejection_reason ==
            IF "error" \in DOMAIN d THEN d["error"]
            ELSE IF "message" \in DOMAIN d THEN d["message"]
            ELSE IF "reason" \in DOMAIN d THEN d["reason"]
            ELSE json_dumps(d)
        first ==
            IF nats.kind \in { "absent", "dict" }
              THEN IF status = "Accepted"
                     THEN [status |-> "accepted", reason |-> None, acc |-> 1, rej |-> 0]
                     ELSE [status |-> "rejected", reason |-> Some(rejection_reason),
                           acc |-> 0, rej |-> 1]
              ELSE [status |-> "error",
                    reason |-> Some(IF nats.text # "" THEN nats.text ELSE "Unknown error"),
                    acc |-> 0, rej |-> 1]
        second ==
            IF result.error # None
              THEN << [status |-> "error", reason |-> result.error] >>
              ELSE << >>
    IN  [ calls |-> << [status |-> first.status, reason |-> first.reason] >> \o second,
          acc |-> first.acc,
          rej |-> first.rej ]

\* The ledger after the calls of one attempt.
RECURSIVE apply_calls(_, _, _, _, _)
apply_calls(all_data, pfid, calls, key, t) ==
    IF calls = << >> THEN all_data
    ELSE apply_calls(
           update_odd_ones_status(all_data, pfid, calls[1].status, calls[1].reason, key, t),
           pfid, Tail(calls), key, t)

\* ------------------------------------------------------------------ state
VARIABLES
    progressFile,     \* pricing_check_progress.json
    ledger,           \* "sites" of pricing_odd_ones_out.json
    now,              \* the logical clock behind datetime.now()
    pc,               \* where the running invocation is; "idle" when none runs
    exit_code,        \* how the last invocation ended
    pfid_info,        \* parse_pfid_input's result
    resume_progress,  \* main's resume_progress
    accs,             \* main_pfid: the ACCs of the ACN, sorted
    completed_accs,   \* main_pfid: completed_accs
    all_results,      \* main_pfid: all_results / results
    i,                \* the index of the loop in progress (1-based)
    odd_ones,         \* prompt_update_odd_ones: the batch
    correct_schedule, \* the schedule the batch is written with
    site_key,         \* the ledger key of the batch
    retry_sites,      \* main_retry: the site keys still to retry
    site_data,        \* main_retry_site: the entry loaded at its start
    to_retry,         \* main_retry_site: the batch
    accepted_count,
    rejected_count,
    failed_accs,      \* history: ACCs of this sweep whose listing failed
    scanned,          \* history: ACCs process_stations ran for, in order
    found,            \* history: what load_progress returned to check_resume_progress,
                      \* kept until the first pass of the sweep's loop
    writes,           \* history: set_configuration calls of the batch
    last_result,      \* history: the reply to the last write of the batch, or to
                      \* the last call process_stations made for a station
    argv,             \* sys.argv[1:]
    refresh,          \* get_site_data: its argument
    cacheFile,        \* sites_cache.json
    site_rows,        \* main_pfid: the rows get_site_data returned
    calls,            \* history: the external services the invocation contacted
    jwt_refresh_timer,\* _jwt_refresh_timer
    jwt_lock,         \* _jwt_lock: the thread that holds it, if any
    timers,           \* the threading.Timer objects created so far
    acquiring,        \* the threads that are inside get_jwt
    do_update         \* the operator's answer to the prompt of the batch in
                      \* hand (yes or y: TRUE), None while it is not given

disk == << progressFile, ledger, now >>
sweep_vars == << pfid_info, resume_progress, accs, completed_accs, all_results,
                 failed_accs, scanned, found >>
batch_vars == << odd_ones, correct_schedule, site_key, retry_sites, site_data,
                 to_retry, accepted_count, rejected_count, writes, last_result >>
jwt_vars == << jwt_refresh_timer, jwt_lock, timers, acquiring >>
other_aux == << argv, refresh, cacheFile, site_rows, calls, jwt_vars >>
aux_vars == << other_aux, do_update >>
vars == << disk, pc, exit_code, i, sweep_vars, batch_vars, aux_vars >>

Absent == [kind |-> "absent"]
Partial == [kind |-> "partial"]

\* load_progress: None when the file is missing or json.load fails.
load_progress(file) == IF file.kind = "json" THEN Some(file) ELSE None

\* delete_progress.
delete_progress(file) == Absent

\* The progress dict main_pfid saves in acn-only mode.
sweep_progress(acn_id, acc_list, completed, results) ==
    [ kind |-> "json", mode |-> "acn-only", acn_id |-> acn_id, acc_id |-> None,
      total_accs |-> Len(acc_list), completed_accs |-> completed, results |-> results ]

\* The progress dict main_pfid saves in the other modes (completed_accs,
\* total_accs and results are what .get() defaults to for it).
deep_progress(info) ==
    [ kind |-> "json", mode |-> info.mode[1], acn_id |-> info.acn[1], acc_id |-> info.acc,
      total_accs |-> 0, completed_accs |-> << >>, results |-> << >> ]

\* The parts of the state the flows below leave alone: no argument, no
\* directory cache, no call made, no timer.
AuxInit ==
    /\ argv = << >>
    /\ refresh = FALSE
    /\ cacheFile = Absent
    /\ site_rows = << >>
    /\ calls = << >>
    /\ jwt_refresh_timer = None
    /\ jwt_lock = None
    /\ timers = << >>
    /\ acquiring = {}
    /\ do_update = None

Init ==
    /\ progressFile = Absent
    /\ ledger = EmptyLedger
    /\ now = 0
    /\ pc = "idle"
    /\ exit_code = "none"
    /\ pfid_info = parse_pfid_input(<< >>)
    /\ resume_progress = None
    /\ accs = << >>
    /\ completed_accs = << >>
    /\ all_results = << >>
    /\ i = 1
    /\ odd_ones = << >>
    /\ correct_schedule = << >>
    /\ site_key = ""
    /\ retry_sites = << >>
    /\ site_data = None
    /\ to_retry = << >>
    /\ accepted_count = 0
    /\ rejected_count = 0
    /\ failed_accs = {}
    /\ scanned = << >>
    /\ found = None
    /\ writes = << >>
    /\ last_result = None
    /\ AuxInit

\* The invocation ends: its memory is gone, the files stay.
Halt(code) ==
    /\ pc' = "idle"
    /\ exit_code' = code
    /\ pfid_info' = parse_pfid_input(<< >>)
    /\ resume_progress' = None
    /\ accs' = << >>
    /\ completed_accs' = << >>
    /\ all_results' = << >>
    /\ i' = 1
    /\ odd_ones' = << >>
    /\ correct_schedule' = << >>
    /\ site_key' = ""
    /\ retry_sites' = << >>
    /\ site_data' = None
    /\ to_retry' = << >>
    /\ accepted_count' = 0
    /\ rejected_count' = 0
    /\ failed_accs' = {}
    /\ scanned' = << >>
    /\ found' = None
    /\ writes' = << >>

Exit(code) ==
    /\ Halt(code)
    /\ last_result' = None

\* ------------------------------------------------------ main: scan modes
\* main, acn-only: parse, then check_resume_progress up to its prompt.
StartSweep(acn) ==
    /\ pc = "idle"
    /\ pfid_info' = parse_pfid_input(<< acn >>)
    /\ exit_code' = "none"
    /\ resume_progress' = load_progress(progressFile)
    /\ found' = load_progress(progressFile)
    /\ pc' = IF load_progress(progressFile) = None THEN "jwt" ELSE "resume_prompt"
    /\ UNCHANGED << disk, i, accs, completed_accs, all_results, failed_accs, scanned,
                    batch_vars >>
    /\ do_update' = None
    /\ UNCHANGED other_aux

\* main, the other modes: no resume check.
StartDeep(scope) ==
    /\ pc = "idle"
    /\ pfid_info' = parse_pfid_input(scope)
    /\ exit_code' = "none"
    /\ pc' = "jwt"
    /\ UNCHANGED << disk, i, resume_progress, accs, completed_accs, all_results,
                    failed_accs, scanned, found, batch_vars >>
    /\ do_update' = None
    /\ UNCHANGED other_aux

\* AnswerResume without main's validation of the resume data.
AnswerResume_unvalidated(yes) ==
    /\ pc = "resume_prompt"
    /\ resume_progress' = IF yes THEN resume_progress ELSE None
    /\ progressFile' = IF yes THEN progressFile ELSE delete_progress(progressFile)
    /\ pc' = "jwt"
    /\ UNCHANGED << ledger, now, exit_code, i, pfid_info, accs, completed_accs,
                    all_results, failed_accs, scanned, found, batch_vars >>
    /\ UNCHANGED aux_vars

\* The operator answers check_resume_progress; main validates the resume data.
AnswerResume(yes) ==
    /\ pc = "resume_prompt"
    /\ LET progress == resume_progress[1]
           keep == /\ yes
                   /\ progress.acn_id = pfid_info.acn[1]
                   /\ progress.mode = "acn-only"
       IN  /\ resume_progress' = IF keep THEN resume_progress ELSE None
           /\ progressFile' = IF keep THEN progressFile ELSE delete_progress(progressFile)
    /\ pc' = "jwt"
    /\ UNCHANGED << ledger, now, exit_code, i, pfid_info, accs, completed_accs,
                    all_results, failed_accs, scanned, found, batch_vars >>
    /\ UNCHANGED aux_vars

\* get_jwt at the start of main, for a scan and for --retry.
GetJwt(ok) ==
    /\ pc \in { "jwt", "retry_jwt" }
    /\ IF ok
         THEN /\ pc' = IF pc = "retry_jwt" THEN "retry_menu"
                       ELSE IF pfid_info.mode = Some("acn-only") THEN "expand"
                       ELSE "deep_save"
              /\ UNCHANGED << exit_code, i, sweep_vars, batch_vars >>
         ELSE Exit("1")
    /\ UNCHANGED disk
    /\ UNCHANGED aux_vars

\* Expand deleting the progress file when the directory cannot be had.
Expand_discarding_progress(fetch_ok) ==
    /\ pc = "expand"
    /\ LET acn == pfid_info.acn[1]
           acc_list == get_accs_for_acn(SiteData, acn)
           resumed == resume_progress # None /\ resume_progress[1].acn_id = acn
       IN  IF ~fetch_ok \/ acc_list = << >>
             THEN /\ progressFile' = delete_progress(progressFile)
                  /\ UNCHANGED << ledger, now >>
                  /\ Exit("1")
             ELSE /\ accs' = acc_list
                  /\ completed_accs' = IF resumed THEN resume_progress[1].completed_accs
                                       ELSE << >>
                  /\ all_results' = IF resumed THEN resume_progress[1].results ELSE << >>
                  /\ i' = 1
                  /\ pc' = "sweep"
                  /\ UNCHANGED << disk, exit_code, pfid_info, resume_progress,
                                  failed_accs, scanned, found, batch_vars >>
    /\ UNCHANGED aux_vars

\* main_pfid, acn-only, up to the loop: the directory, the ACC list, the
\* resume data.
Expand(fetch_ok) ==
    /\ pc = "expand"
    /\ LET acn == pfid_info.acn[1]
           acc_list == get_accs_for_acn(SiteData, acn)
           resumed == resume_progress # None /\ resume_progress[1].acn_id = acn
       IN  IF ~fetch_ok \/ acc_list = << >>
             THEN Exit("1")
             ELSE /\ accs' = acc_list
                  /\ completed_accs' = IF resumed THEN resume_progress[1].completed_accs
                                       ELSE << >>
                  /\ all_results' = IF resumed THEN resume_progress[1].results ELSE << >>
                  /\ i' = 1
                  /\ pc' = "sweep"
                  /\ UNCHANGED << exit_code, pfid_info, resume_progress, failed_accs,
                                  scanned, found, batch_vars >>
    /\ UNCHANGED disk
    /\ UNCHANGED aux_vars

\* The loop skips an ACC that is in completed_accs.
SkipAcc ==
    /\ pc = "sweep"
    /\ i <= Len(accs)
    /\ accs[i] \in Range(completed_accs)
    /\ i' = i + 1
    /\ found' = None
    /\ UNCHANGED << disk, pc, exit_code, pfid_info, resume_progress, accs, completed_accs,
                    all_results, failed_accs, scanned, batch_vars >>
    /\ UNCHANGED aux_vars

\* The loop body up to save_progress: process_stations, then the ACC is
\* appended to completed_accs.  A reply to a read that is not of the shape
\* the extract functions and check_schedule_values can handle ends the
\* invocation with the exception.
ProcessAcc(fetch_ok) ==
    /\ pc = "sweep"
    /\ i <= Len(accs)
    /\ accs[i] \notin Range(completed_accs)
    /\ LET acn == pfid_info.acn[1]
           stations == fetch_station_data(acn, accs[i], fetch_ok)
       IN  \/ /\ \E reads \in [DOMAIN LiteonEntries(stations) -> Schedules] :
                    all_results' = process_stations(acn, accs[i], all_results, stations,
                                                    reads)
              /\ completed_accs' = Append(completed_accs, accs[i])
              /\ failed_accs' = IF fetch_ok THEN failed_accs
                                ELSE failed_accs \cup { accs[i] }
              /\ scanned' = Append(scanned, accs[i])
              /\ pc' = "save"
              /\ found' = None
              /\ UNCHANGED << exit_code, i, pfid_info, resume_progress, accs, batch_vars >>
           \/ /\ LiteonEntries(stations) # << >>
              /\ Exit("crash")
    /\ UNCHANGED disk
    /\ UNCHANGED aux_vars

\* save_progress opens the file for writing: what it held is gone.
SaveProgressOpen ==
    /\ pc \in { "save", "deep_save" }
    /\ progressFile' = Partial
    /\ pc' = IF pc = "save" THEN "save_dump" ELSE "deep_dump"
    /\ UNCHANGED << ledger, now, exit_code, i, sweep_vars, batch_vars >>
    /\ UNCHANGED aux_vars

\* json.dump completes and the file is closed.
SaveProgressDump ==
    /\ pc \in { "save_dump", "deep_dump" }
    /\ IF pc = "save_dump"
         THEN /\ progressFile' = sweep_progress(pfid_info.acn[1], accs, completed_accs,
                                                all_results)
              /\ i' = i + 1
              /\ pc' = "sweep"
         ELSE /\ progressFile' = deep_progress(pfid_info)
              /\ i' = i
              /\ pc' = "deep_scan"
    /\ UNCHANGED << ledger, now, exit_code, sweep_vars, batch_vars >>
    /\ UNCHANGED aux_vars

\* The loop is over.
SweepDone ==
    /\ pc = "sweep"
    /\ i > Len(accs)
    /\ pc' = "results"
    /\ UNCHANGED << disk, exit_code, i, sweep_vars, batch_vars >>
    /\ UNCHANGED aux_vars

\* main_pfid, the other modes: process_stations of the one scope.
ProcessDeep(fetch_ok) ==
    /\ pc = "deep_scan"
    /\ LET acn == pfid_info.acn[1]
           acc == pfid_info.acc[1]
           stations == fetch_station_data(acn, acc, fetch_ok)
       IN  \/ /\ \E reads \in [DOMAIN LiteonEntries(stations) -> Schedules] :
                    all_results' = process_stations(acn, acc, << >>, stations, reads)
              /\ scanned' = Append(scanned, acc)
              /\ pc' = "results"
              /\ UNCHANGED << exit_code, i, pfid_info, resume_progress, accs,
                              completed_accs, failed_accs, found, batch_vars >>
           \/ /\ LiteonEntries(stations) # << >>
              /\ Exit("crash")
    /\ UNCHANGED disk
    /\ UNCHANGED aux_vars

\* print_results, then prompt_update_odd_ones up to its prompt (the batch is
\* saved to the ledger first); with no odd ones the run ends.
ShowResults ==
    /\ pc = "results"
    /\ LET odd == odd_ones_of(all_results)
           schedule == get_correct_schedule(correct_of(all_results))
       IN  IF odd = << >>
             THEN /\ progressFile' = delete_progress(progressFile)
                  /\ UNCHANGED << ledger, now >>
                  /\ Exit("0")
             ELSE /\ now < MaxClock
                  /\ now' = now + 1
                  /\ ledger' = save_odd_ones_out(ledger, odd, schedule, pfid_info.acn,
                                 pfid_info.acc, pfid_info.acg, pfid_info.acs,
                                 pfid_info.mode, now + 1)
                  /\ odd_ones' = odd
                  /\ correct_schedule' = schedule
                  /\ site_key' = get_site_key(pfid_info.acn[1], pfid_info.acc,
                                   pfid_info.acg, pfid_info.acs, pfid_info.mode)
                  /\ pc' = "confirm"
                  /\ UNCHANGED << progressFile, exit_code, i, sweep_vars, retry_sites,
                                  site_data, to_retry, accepted_count, rejected_count,
                                  writes, last_result >>
    /\ UNCHANGED aux_vars

\* ConfirmUpdate entering the update loop whatever the answer.
ConfirmUpdate_any_answer(yes) ==
    /\ pc = "confirm"
    /\ pc' = "update"
    /\ i' = 1
    /\ accepted_count' = 0
    /\ rejected_count' = 0
    /\ writes' = << >>
    /\ last_result' = None
    /\ do_update' = Some(yes)
    /\ UNCHANGED << disk, exit_code, sweep_vars, odd_ones, correct_schedule, site_key,
                    retry_sites, site_data, to_retry >>
    /\ UNCHANGED other_aux

\* The operator answers "Do you want to update these stations?".
ConfirmUpdate(yes) ==
    /\ pc = "confirm"
    /\ IF yes
         THEN /\ pc' = "update"
              /\ i' = 1
              /\ accepted_count' = 0
              /\ rejected_count' = 0
              /\ writes' = << >>
              /\ last_result' = None
              /\ UNCHANGED << disk, exit_code, sweep_vars, odd_ones, correct_schedule,
                              site_key, retry_sites, site_data, to_retry >>
         ELSE /\ progressFile' = delete_progress(progressFile)
              /\ UNCHANGED << ledger, now >>
              /\ Exit("0")
    /\ do_update' = Some(yes)
    /\ UNCHANGED other_aux

\* One pass of the update loop for station pfid: the write, its
\* classification, the ledger updates, the counts.  A reply that is not a
\* mapping has no .get: the invocation dies of the AttributeError.
Attempt(pfid, result, next_pc) ==
    /\ now < MaxClock
    /\ IF result.mapping
         THEN LET outcome == write_outcome(result)
              IN  /\ ledger' = apply_calls(ledger, pfid, outcome.calls, site_key, now + 1)
                  /\ now' = now + 1
                  /\ accepted_count' = accepted_count + outcome.acc
                  /\ rejected_count' = rejected_count + outcome.rej
                  /\ writes' = Append(writes, [ pfid |-> pfid, key |-> "PricingSchedule",
                                                value |-> correct_schedule ])
                  /\ last_result' = Some(result)
                  /\ i' = i + 1
                  /\ pc' = next_pc
                  /\ UNCHANGED << progressFile, exit_code, sweep_vars, odd_ones,
                                  correct_schedule, site_key, retry_sites, site_data,
                                  to_retry >>
         ELSE /\ UNCHANGED disk
              /\ Exit("crash")
    /\ UNCHANGED aux_vars

\* prompt_update_odd_ones: the loop over odd_ones.
UpdateStation(result) ==
    /\ pc = "update"
    /\ i <= Len(odd_ones)
    /\ Attempt(odd_ones[i].pfid, result, "update")

\* The end of the update loop without main_pfid's delete_progress.
UpdateDone_keeping_progress ==
    /\ pc = "update"
    /\ i > Len(odd_ones)
    /\ UNCHANGED disk
    /\ Exit("0")
    /\ UNCHANGED aux_vars

\* The loop is over; main_pfid deletes the progress file and returns.
UpdateDone ==
    /\ pc = "update"
    /\ i > Len(odd_ones)
    /\ progressFile' = delete_progress(progressFile)
    /\ UNCHANGED << ledger, now >>
    /\ Exit("0")
    /\ UNCHANGED aux_vars

\* ------------------------------------------------------------ main: --retry
StartRetry ==
    /\ pc = "idle"
    /\ pc' = "retry_jwt"
    /\ exit_code' = "none"
    /\ UNCHANGED << disk, i, sweep_vars, batch_vars >>
    /\ do_update' = None
    /\ UNCHANGED other_aux

\* main_retry: the menu of sites with pending work and the operator's choice
\* (q, all, or a site number).
RetryMenu ==
    /\ pc = "retry_menu"
    /\ LET listing == get_sites_with_pending_work(ledger)
           sites_with_work == [n \in DOMAIN listing |-> listing[n].site_key]
       IN  IF sites_with_work = << >>
             THEN Exit("0")
             ELSE \/ Exit("0")
                  \/ /\ \E choice \in { sites_with_work }
                                      \cup { << sites_with_work[n] >> :
                                               n \in DOMAIN sites_with_work } :
                          retry_sites' = choice
                     /\ pc' = "retry_site"
                     /\ UNCHANGED << exit_code, i, sweep_vars, odd_ones, correct_schedule,
                                     site_key, site_data, to_retry, accepted_count,
                                     rejected_count, writes, last_result >>
    /\ UNCHANGED disk
    /\ UNCHANGED aux_vars

\* RetrySite taking the schedule to write from get_correct_schedule anew
\* instead of the one stored with the site.
RetrySite_recomputing ==
    /\ pc = "retry_site"
    /\ IF retry_sites = << >>
         THEN /\ UNCHANGED disk
              /\ Exit("0")
         ELSE LET key == Head(retry_sites)
                  loaded == IF key \in DOMAIN ledger THEN Some(ledger[key]) ELSE None
                  stations == IF loaded = None THEN << >> ELSE loaded[1].stations
                  batch == to_retry_of(stations)
              IN  /\ site_key' = key
                  /\ site_data' = loaded
                  /\ to_retry' = batch
                  /\ writes' = << >>
                  /\ last_result' = None
                  /\ accepted_count' = 0
                  /\ rejected_count' = 0
                  /\ i' = 1
                  /\ IF loaded = None \/ stations = << >>
                       THEN /\ retry_sites' = Tail(retry_sites)
                            /\ pc' = "retry_site"
                            /\ UNCHANGED << ledger, correct_schedule >>
                       ELSE IF batch = << >>
                         THEN /\ ledger' = remove_completed_site(ledger, key)
                              /\ retry_sites' = Tail(retry_sites)
                              /\ pc' = "retry_site"
                              /\ UNCHANGED correct_schedule
                         ELSE /\ correct_schedule' = get_correct_schedule(<< >>)
                              /\ pc' = "retry_confirm"
                              /\ UNCHANGED << ledger, retry_sites >>
                  /\ UNCHANGED << progressFile, now, exit_code, sweep_vars, odd_ones >>
    /\ do_update' = None
    /\ UNCHANGED other_aux

\* main_retry_site up to its prompt, for the next site of the choice; when
\* no site is left main_retry returns.
RetrySite ==
    /\ pc = "retry_site"
    /\ IF retry_sites = << >>
         THEN /\ UNCHANGED disk
              /\ Exit("0")
         ELSE LET key == Head(retry_sites)
                  loaded == IF key \in DOMAIN ledger THEN Some(ledger[key]) ELSE None
                  stations == IF loaded = None THEN << >> ELSE loaded[1].stations
                  batch == to_retry_of(stations)
              IN  /\ site_key' = key
                  /\ site_data' = loaded
                  /\ to_retry' = batch
                  /\ writes' = << >>
                  /\ last_result' = None
                  /\ accepted_count' = 0
                  /\ rejected_count' = 0
                  /\ i' = 1
                  /\ IF loaded = None \/ stations = << >>
                       THEN /\ retry_sites' = Tail(retry_sites)
                            /\ pc' = "retry_site"
                            /\ UNCHANGED << ledger, correct_schedule >>
                       ELSE IF batch = << >>
                         THEN /\ ledger' = remove_completed_site(ledger, key)
                              /\ retry_sites' = Tail(retry_sites)
                              /\ pc' = "retry_site"
                              /\ UNCHANGED correct_schedule
                         ELSE /\ correct_schedule' = loaded[1].correct_schedule
                              /\ pc' = "retry_confirm"
                              /\ UNCHANGED << ledger, retry_sites >>
                  /\ UNCHANGED << progressFile, now, exit_code, sweep_vars, odd_ones >>
    /\ do_update' = None
    /\ UNCHANGED other_aux

\* The operator answers "Do you want to retry updating these stations?".
ConfirmRetry(yes) ==
    /\ pc = "retry_confirm"
    /\ IF yes
         THEN /\ pc' = "retry_update"
              /\ UNCHANGED retry_sites
         ELSE /\ pc' = "retry_site"
              /\ retry_sites' = Tail(retry_sites)
    /\ UNCHANGED << disk, exit_code, i, sweep_vars, odd_ones, correct_schedule, site_key,
                    site_data, to_retry, accepted_count, rejected_count, writes,
                    last_result >>
    /\ do_update' = Some(yes)
    /\ UNCHANGED other_aux

\* main_retry_site: the loop over to_retry.
RetryStation(result) ==
    /\ pc = "retry_update"
    /\ i <= Len(to_retry)
    /\ Attempt(to_retry[i].pfid, result, "retry_update")

\* The end of the retry loop without the removal check.
RetryDone_without_removal ==
    /\ pc = "retry_update"
    /\ i > Len(to_retry)
    /\ retry_sites' = Tail(retry_sites)
    /\ pc' = "retry_site"
    /\ UNCHANGED << disk, exit_code, i, sweep_vars, odd_ones, correct_schedule, site_key,
                    site_data, to_retry, accepted_count, rejected_count, writes,
                    last_result >>
    /\ UNCHANGED aux_vars

\* The loop is over: the site is removed when nothing was rejected.
RetryDone ==
    /\ pc = "retry_update"
    /\ i > Len(to_retry)
    /\ ledger' = IF rejected_count = 0 THEN remove_completed_site(ledger, site_key)
                 ELSE ledger
    /\ retry_sites' = Tail(retry_sites)
    /\ pc' = "retry_site"
    /\ UNCHANGED << progressFile, now, exit_code, i, sweep_vars, odd_ones,
                    correct_schedule, site_key, site_data, to_retry, accepted_count,
                    rejected_count, writes, last_result >>
    /\ UNCHANGED aux_vars

\* ---------------------------------------------------------------- SIGINT
\* signal_handler: the invocation ends wherever it is.
Interrupt ==
    /\ pc # "idle"
    /\ UNCHANGED disk
    /\ Exit("sigint")
    /\ UNCHANGED aux_vars

Next ==
    \/ \E acn \in SweepAcns : StartSweep(acn)
    \/ \E scope \in DeepScopes : StartDeep(scope)
    \/ \E yes \in BOOLEAN : AnswerResume(yes)
    \/ \E ok \in BOOLEAN : GetJwt(ok)
    \/ \E fetch_ok \in BOOLEAN : Expand(fetch_ok)
    \/ SkipAcc
    \/ \E fetch_ok \in BOOLEAN : ProcessAcc(fetch_ok)
    \/ SaveProgressOpen
    \/ SaveProgressDump
    \/ SweepDone
    \/ \E fetch_ok \in BOOLEAN : ProcessDeep(fetch_ok)
    \/ ShowResults
    \/ \E yes \in BOOLEAN : ConfirmUpdate(yes)
    \/ \E result \in FlowResults : UpdateStation(result)
    \/ UpdateDone
    \/ StartRetry
    \/ RetryMenu
    \/ RetrySite
    \/ \E yes \in BOOLEAN : ConfirmRetry(yes)
    \/ \E result \in FlowResults : RetryStation(result)
    \/ RetryDone
    \/ Interrupt

Spec == Init /\ [][Next]_vars

\* ------------------------------------------------ one uninterrupted sweep
\* One sweep that nothing interrupts, every call of it returning and the
\* operator answering every prompt.  It starts over what an earlier run may
\* have left: no checkpoint, a checkpoint cut short while being written, the
\* checkpoint of a sweep of ACN 0051 interrupted after ACC 09, or the
\* checkpoint of a scan of the scope 0051-09.
LeftCheckpoints ==
    { Absent, Partial, deep_progress(parse_pfid_input(<< "0051", "09" >>)) }
    \cup { sweep_progress("0051", << "09", "12" >>, << "09" >>,
               process_stations("0051", "09", << >>, StationData("0051", "09"), << r >>))
           : r \in Schedules }

InitLive ==
    /\ progressFile \in LeftCheckpoints
    /\ ledger = EmptyLedger
    /\ now = 0
    /\ pc = "idle"
    /\ exit_code = "none"
    /\ pfid_info = parse_pfid_input(<< >>)
    /\ resume_progress = None
    /\ accs = << >>
    /\ completed_accs = << >>
    /\ all_results = << >>
    /\ i = 1
    /\ odd_ones = << >>
    /\ correct_schedule = << >>
    /\ site_key = ""
    /\ retry_sites = << >>
    /\ site_data = None
    /\ to_retry = << >>
    /\ accepted_count = 0
    /\ rejected_count = 0
    /\ failed_accs = {}
    /\ scanned = << >>
    /\ found = None
    /\ writes = << >>
    /\ last_result = None
    /\ AuxInit

\* The sweep is started once.
StartSweepOnce(acn) ==
    /\ exit_code = "none"
    /\ StartSweep(acn)

NextLive ==
    \/ \E acn \in SweepAcns : StartSweepOnce(acn)
    \/ \E yes \in BOOLEAN : AnswerResume(yes)
    \/ \E ok \in BOOLEAN : GetJwt(ok)
    \/ \E fetch_ok \in BOOLEAN : Expand(fetch_ok)
    \/ SkipAcc
    \/ \E fetch_ok \in BOOLEAN : ProcessAcc(fetch_ok)
    \/ SaveProgressOpen
    \/ SaveProgressDump
    \/ SweepDone
    \/ ShowResults
    \/ \E yes \in BOOLEAN : ConfirmUpdate(yes)
    \/ \E result \in FlowResults : UpdateStation(result)
    \/ UpdateDone

\* The invocation is a sequential program: as long as it can take a step it
\* takes one.
SpecLive == InitLive /\ [][NextLive]_vars /\ WF_vars(NextLive)

\* ------------------------------------------------- the write loop on its own
\* The update loop of prompt_update_odd_ones explored with every reply shape:
\* it starts where a sweep of ACN 0051 that found both stations deviating has
\* saved them to an empty ledger and the operator has answered yes.
BothOdd ==
    process_stations("0051", "12",
        process_stations("0051", "09", << >>, StationData("0051", "09"),
                         << Some(<< [t |-> 0, f |-> 3] >>) >>),
        StationData("0051", "12"), << Some(<< [t |-> 0, f |-> 3] >>) >>)

InitWrite ==
    /\ progressFile = sweep_progress("0051", << "09", "12" >>, << "09", "12" >>, BothOdd)
    /\ ledger = save_odd_ones_out(EmptyLedger, BothOdd, get_correct_schedule(<< >>),
                                  Some("0051"), None, None, None, Some("acn-only"), 1)
    /\ now = 1
    /\ pc = "update"
    /\ exit_code = "none"
    /\ pfid_info = parse_pfid_input(<< "0051" >>)
    /\ resume_progress = None
    /\ accs = << "09", "12" >>
    /\ completed_accs = << "09", "12" >>
    /\ all_results = BothOdd
    /\ i = 1
    /\ odd_ones = BothOdd
    /\ correct_schedule = get_correct_schedule(<< >>)
    /\ site_key = "0051"
    /\ retry_sites = << >>
    /\ site_data = None
    /\ to_retry = << >>
    /\ accepted_count = 0
    /\ rejected_count = 0
    /\ failed_accs = {}
    /\ scanned = << "09", "12" >>
    /\ found = None
    /\ writes = << >>
    /\ last_result = None
    /\ AuxInit

NextWrite ==
    \/ \E result \in AllResults : UpdateStation(result)
    \/ UpdateDone

SpecWrite == InitWrite /\ [][NextWrite]_vars

\* --------------------------------------------- remove_completed_site alone
\* remove_completed_site applied to every ledger over the two scopes 0051
\* (two stations) and 0051-09 (one station) with every combination of
\* statuses, for a key in the ledger or not.
StatusValues == { "pending", "accepted", "rejected", "error" }

WithStatuses(entry, statuses) ==
    [entry EXCEPT !.stations =
        [n \in DOMAIN entry.stations |->
            [entry.stations[n] EXCEPT !.update_status = statuses[n]]]]

EntriesOf(odd, acc_id, mode, t) ==
    LET key == get_site_key("0051", acc_id, None, None, mode)
        entry == save_odd_ones_out(EmptyLedger, odd, get_correct_schedule(<< >>),
                                   Some("0051"), acc_id, None, None, mode, t)[key]
    IN  { WithStatuses(entry, statuses) : statuses \in [DOMAIN odd -> StatusValues] }

RemoveLedgers ==
    LET acn_entries == EntriesOf(BothOdd, None, Some("acn-only"), 1)
        acc_entries == EntriesOf(SubSeq(BothOdd, 1, 1), Some("09"), Some("acn-acc"), 2)
    IN  { EmptyLedger }
        \cup { [k \in { "0051" } |-> e] : e \in acn_entries }
        \cup { [k \in { "0051-09" } |-> e] : e \in acc_entries }
        \cup { [k \in { "0051", "0051-09" } |-> IF k = "0051" THEN e ELSE f] :
                 e \in acn_entries, f \in acc_entries }

InitRemove ==
    /\ ledger \in RemoveLedgers
    /\ site_key \in { "0051", "0051-09", "0077" }
    /\ progressFile = Absent
    /\ now = 2
    /\ pc = "remove"
    /\ exit_code = "none"
    /\ pfid_info = parse_pfid_input(<< >>)
    /\ resume_progress = None
    /\ accs = << >>
    /\ completed_accs = << >>
    /\ all_results = << >>
    /\ i = 1
    /\ odd_ones = << >>
    /\ correct_schedule = << >>
    /\ retry_sites = << >>
    /\ site_data = None
    /\ to_retry = << >>
    /\ accepted_count = 0
    /\ rejected_count = 0
    /\ failed_accs = {}
    /\ scanned = << >>
    /\ found = None
    /\ writes = << >>
    /\ last_result = None
    /\ AuxInit

RemoveSite ==
    /\ pc = "remove"
    /\ ledger' = remove_completed_site(ledger, site_key)
    /\ pc' = "removed"
    /\ UNCHANGED << progressFile, now, exit_code, i, sweep_vars, batch_vars >>
    /\ UNCHANGED aux_vars

SpecRemove == InitRemove /\ [][RemoveSite]_vars

\* ---------------------------------------------------------------------------
\* get_sites_with_pending_work on its own: the listing main_retry shows, over
\* ledgers whose two sites carry every combination of statuses and every
\* order of last update.
\* ---------------------------------------------------------------------------

\* The variables of the sweep, the batch and the rest at their values at the
\* start of an invocation.
FlowInit ==
    /\ pfid_info = parse_pfid_input(<< >>)
    /\ resume_progress = None
    /\ accs = << >>
    /\ completed_accs = << >>
    /\ all_results = << >>
    /\ i = 1
    /\ odd_ones = << >>
    /\ correct_schedule = << >>
    /\ site_key = ""
    /\ retry_sites = << >>
    /\ site_data = None
    /\ to_retry = << >>
    /\ accepted_count = 0
    /\ rejected_count = 0
    /\ failed_accs = {}
    /\ scanned = << >>
    /\ found = None
    /\ writes = << >>
    /\ last_result = None

ListLedgers ==
    LET acn_entries == UNION { EntriesOf(BothOdd, None, Some("acn-only"), t) :
                                 t \in 1..MaxClock }
        acc_entries == UNION { EntriesOf(SubSeq(BothOdd, 1, 1), Some("09"),
                                         Some("acn-acc"), t) : t \in 1..MaxClock }
    IN  { EmptyLedger }
        \cup { [k \in { "0051" } |-> e] : e \in acn_entries }
        \cup { [k \in { "0051", "0051-09" } |-> IF k = "0051" THEN p[1] ELSE p[2]] :
                 p \in { q \in acn_entries \X acc_entries :
                            q[1].last_updated # q[2].last_updated } }

InitList ==
    /\ ledger \in ListLedgers
    /\ progressFile = Absent
    /\ now = MaxClock
    /\ pc = "retry_menu"
    /\ exit_code = "none"
    /\ FlowInit
    /\ AuxInit

\* main_retry, l.1129: the listing itself, kept in retry_sites (whole
\* summaries here, where the retry flow above keeps their keys).
ListSites ==
    /\ pc = "retry_menu"
    /\ retry_sites' = get_sites_with_pending_work(ledger)
    /\ pc' = "retry_listed"
    /\ UNCHANGED << disk, exit_code, i, sweep_vars, odd_ones, correct_schedule, site_key,
                    site_data, to_retry, accepted_count, rejected_count, writes,
                    last_result >>
    /\ UNCHANGED aux_vars

SpecList == InitList /\ [][ListSites]_vars

\* ------------------------------------------------- the upsert on its own
\* print_results and the save_odd_ones_out of prompt_update_odd_ones applied
\* to the results of a scan of ACN 0051 or of ACC 0051-09, over a ledger that
\* holds entries of the two scopes with every combination of statuses.
\* site_data keeps the entry the ledger held under the scope's key before.
UpsertSchedules ==
    Schedules \cup { Some(<< [t |-> 0, f |-> 5], [t |-> 4, f |-> 7] >>) }

UpsertScopes == { << "0051" >>, << "0051", "09" >> }

ScanResults(parts) ==
    IF Len(parts) = 1
      THEN { process_stations("0051", "12",
                 process_stations("0051", "09", << >>, StationData("0051", "09"), << r1 >>),
                 StationData("0051", "12"), << r2 >>)
             : r1 \in UpsertSchedules, r2 \in UpsertSchedules }
      ELSE { process_stations("0051", "09", << >>, StationData("0051", "09"), << r1 >>)
             : r1 \in UpsertSchedules }

InitUpsert ==
    /\ \E parts \in UpsertScopes :
          /\ pfid_info = parse_pfid_input(parts)
          /\ all_results \in ScanResults(parts)
          /\ accs = IF Len(parts) = 1 THEN << "09", "12" >> ELSE << >>
          /\ completed_accs = accs
          /\ scanned = IF Len(parts) = 1 THEN << "09", "12" >> ELSE << "09" >>
          /\ progressFile = IF Len(parts) = 1
                              THEN sweep_progress("0051", accs, completed_accs, all_results)
                              ELSE deep_progress(pfid_info)
    /\ ledger \in RemoveLedgers
    /\ LET key == get_site_key(pfid_info.acn[1], pfid_info.acc, pfid_info.acg,
                               pfid_info.acs, pfid_info.mode)
       IN  site_data = IF key \in DOMAIN ledger THEN Some(ledger[key]) ELSE None
    /\ now = 2
    /\ pc = "results"
    /\ exit_code = "none"
    /\ resume_progress = None
    /\ i = 1
    /\ odd_ones = << >>
    /\ correct_schedule = << >>
    /\ site_key = ""
    /\ retry_sites = << >>
    /\ to_retry = << >>
    /\ accepted_count = 0
    /\ rejected_count = 0
    /\ failed_accs = {}
    /\ found = None
    /\ writes = << >>
    /\ last_result = None
    /\ AuxInit

SpecUpsert == InitUpsert /\ [][ShowResults]_vars

\* ------------------------------------------------- read-config replies
\* What get_configuration returns: json.loads of the reply, or {"error": ..}
\* when the call fails (CallFailure).  A well-formed reply holds a
\* natsResponse dict with a configuration_key list of {"key", "value"} items,
\* the value being a string.
CkAbsent == [kind |-> "absent"]
CkNull == [kind |-> "null"]
CkList(items) == [kind |-> "list", items |-> items]
NatsConfig(ck) == [kind |-> "dict", configuration_key |-> ck]

ItemStr == [mapping |-> FALSE]
Item(key, value) == [mapping |-> TRUE, key |-> key, value |-> value]
ValAbsent == [kind |-> "absent"]
ValStr(text) == [kind |-> "str", text |-> text]
ValBool == [kind |-> "bool"]

ConfigReply(items) == Reply(None, NatsConfig(CkList(items)))

\* Values of the PricingSchedule key.
ScheduleTexts ==
    { "[]",
      "[{\"t\": 0, \"f\": 0.5}]",
      "[{\"t\": 0, \"f\": 0.3}]",
      "[{\"t\": 0, \"f\": 0.5}, {\"t\": 4, \"f\": 0.3}]",
      "[1]",
      "5",
      "oops" }

\* json.loads of such a value: a list of entries (dicts or not), a number,
\* or a JSONDecodeError.
json_loads(text) ==
    IF text = "[]"
      THEN [ok |-> TRUE, kind |-> "list", of_dicts |-> TRUE, items |-> << >>]
    ELSE IF text = "[{\"t\": 0, \"f\": 0.5}]"
      THEN [ok |-> TRUE, kind |-> "list", of_dicts |-> TRUE,
            items |-> << [t |-> 0, f |-> 5] >>]
    ELSE IF text = "[{\"t\": 0, \"f\": 0.3}]"
      THEN [ok |-> TRUE, kind |-> "list", of_dicts |-> TRUE,
            items |-> << [t |-> 0, f |-> 3] >>]
    ELSE IF text = "[{\"t\": 0, \"f\": 0.5}, {\"t\": 4, \"f\": 0.3}]"
      THEN [ok |-> TRUE, kind |-> "list", of_dicts |-> TRUE,
            items |-> << [t |-> 0, f |-> 5], [t |-> 4, f |-> 3] >>]
    ELSE IF text = "[1]"
      THEN [ok |-> TRUE, kind |-> "list", of_dicts |-> FALSE, items |-> << 1 >>]
    ELSE IF text = "5"
      THEN [ok |-> TRUE, kind |-> "number", of_dicts |-> FALSE, items |-> << >>]
    ELSE [ok |-> FALSE, kind |-> "invalid", of_dicts |-> FALSE, items |-> << >>]

\* str.lower of the values of the PricingScheduleEnable key.
lower(text) == IF text \in { "true", "True", "TRUE" } THEN "true" ELSE text

Raised == [raised |-> TRUE, value |-> None]
Returned(value) == [raised |-> FALSE, value |-> value]

\* The loop of extract_pricing_schedule over the configuration_key items: an
\* item that is no dict has no .get (AttributeError, not caught); a value
\* that is no string or no JSON is caught and None is returned.
RECURSIVE schedule_of_items(_)
schedule_of_items(items) ==
    IF items = << >> THEN Returned(None)
    ELSE LET item == items[1]
         IN  IF ~item.mapping THEN Raised
             ELSE IF item.key # "PricingSchedule" THEN schedule_of_items(Tail(items))
             ELSE IF item.value.kind = "absent" THEN Returned(Some(json_loads("[]")))
             ELSE IF item.value.kind # "str" THEN Returned(None)
             ELSE IF json_loads(item.value.text).ok
               THEN Returned(Some(json_loads(item.value.text)))
             ELSE Returned(None)

\* extract_pricing_schedule indexing natsResponse instead of .get with a
\* default: a reply without natsResponse (a failed call) raises.
extract_pricing_schedule_indexing(response) ==
    IF ~response.mapping THEN Raised
    ELSE IF response.natsResponse.kind # "dict" THEN Raised
    ELSE IF response.natsResponse.configuration_key.kind \in { "absent", "null" }
      THEN Returned(None)
    ELSE schedule_of_items(response.natsResponse.configuration_key.items)

extract_pricing_schedule(response) ==
    IF ~response.mapping THEN Raised
    ELSE IF response.natsResponse.kind = "absent" THEN Returned(None)
    ELSE IF response.natsResponse.kind # "dict" THEN Raised
    ELSE IF response.natsResponse.configuration_key.kind \in { "absent", "null" }
      THEN Returned(None)
    ELSE schedule_of_items(response.natsResponse.configuration_key.items)

\* The loop of extract_pricing_enabled: a value that is no string has no
\* .lower (AttributeError, not caught).
RECURSIVE enabled_of_items(_)
enabled_of_items(items) ==
    IF items = << >> THEN Returned(None)
    ELSE LET item == items[1]
         IN  IF ~item.mapping THEN Raised
             ELSE IF item.key # "PricingScheduleEnable" THEN enabled_of_items(Tail(items))
             ELSE IF item.value.kind = "absent" THEN Returned(Some(FALSE))
             ELSE IF item.value.kind # "str" THEN Raised
             ELSE Returned(Some(lower(item.value.text) = "true"))

extract_pricing_enabled(response) ==
    IF ~response.mapping THEN Raised
    ELSE IF response.natsResponse.kind = "absent" THEN Returned(None)
    ELSE IF response.natsResponse.kind # "dict" THEN Raised
    ELSE IF response.natsResponse.configuration_key.kind \in { "absent", "null" }
      THEN Returned(None)
    ELSE enabled_of_items(response.natsResponse.configuration_key.items)

\* check_schedule_values on what extract_pricing_schedule returned: a number
\* cannot be iterated and an entry that is no dict has no .get, neither is
\* caught.
checked_schedule(value) ==
    IF value = None
      THEN [raised |-> FALSE, schedule |-> None,
            all_correct |-> check_schedule_values(None).all_correct,
            mismatches |-> check_schedule_values(None).mismatches]
    ELSE IF value[1].kind = "list" /\ (value[1].items = << >> \/ value[1].of_dicts)
      THEN [raised |-> FALSE, schedule |-> Some(value[1].items),
            all_correct |-> check_schedule_values(Some(value[1].items)).all_correct,
            mismatches |-> check_schedule_values(Some(value[1].items)).mismatches]
    ELSE [raised |-> TRUE, schedule |-> None, all_correct |-> "None", mismatches |-> << >>]

\* Replies to the read of PricingScheduleEnable.
FlagReplies ==
    { CallFailure,
      NotMapping,
      Reply(None, NatsAbsent),
      Reply(None, NatsStr("timeout")),
      ConfigReply(<< ItemStr >>),
      ConfigReply(<< Item("PricingScheduleEnable", ValStr("True")) >>),
      ConfigReply(<< Item("PricingScheduleEnable", ValStr("false")) >>),
      ConfigReply(<< Item("PricingScheduleEnable", ValBool) >>) }

\* Replies to the write of PricingScheduleEnable.
EnableReplies ==
    { CallFailure, NotMapping, Reply(None, NatsDict([status |-> "Accepted"])) }

\* Replies to the read of PricingSchedule.
ScheduleReplies ==
    { CallFailure,
      NotMapping,
      Reply(None, NatsAbsent),
      Reply(None, NatsStr("timeout")),
      Reply(None, NatsConfig(CkAbsent)),
      Reply(None, NatsConfig(CkNull)),
      ConfigReply(<< ItemStr >>),
      ConfigReply(<< Item("PricingSchedule", ValAbsent) >>),
      ConfigReply(<< Item("PricingSchedule", ValBool) >>) }
    \cup { ConfigReply(<< Item("PricingScheduleEnable", ValStr("true")),
                          Item("PricingSchedule", ValStr(text)) >>)
           : text \in ScheduleTexts }

\* --------------------------------------------- process_stations step by step
\* "-".join of the components that are given.
build_pfid_prefix(acn, acc, acg, acs) ==
    acn \o (IF acc # None THEN "-" \o acc[1] ELSE "")
        \o (IF acg # None THEN "-" \o acg[1] ELSE "")
        \o (IF acs # None THEN "-" \o acs[1] ELSE "")

\* str.startswith.
startswith(text, prefix) ==
    Len(prefix) <= Len(text) /\ SubSeq(text, 1, Len(prefix)) = prefix

\* The filter of process_stations without the test of the type.
liteon_entries_of_any_type(stations, acn, acc, acg, acs) ==
    LET pfid_prefix == IF acg # None THEN Some(build_pfid_prefix(acn, acc, acg, acs))
                       ELSE None
    IN  SelectSeq(stations,
           LAMBDA e : /\ e.pfid # ""
                      /\ pfid_prefix # None => startswith(e.pfid, pfid_prefix[1]))

\* The filter of process_stations: entries with a pfid, under the prefix when
\* an ACG is given, of type LiteON.
liteon_entries(stations, acn, acc, acg, acs) ==
    LET pfid_prefix == IF acg # None THEN Some(build_pfid_prefix(acn, acc, acg, acs))
                       ELSE None
    IN  SelectSeq(stations,
           LAMBDA e : /\ e.pfid # ""
                      /\ pfid_prefix # None => startswith(e.pfid, pfid_prefix[1])
                      /\ e.evse_type = "LiteON")

\* The scopes the scan is explored with: an ACC, an ACG, a single station.
ScanScopes ==
    { << "0060", "02" >>, << "0060", "02", "01" >>, << "0060", "02", "01", "02" >> }

\* The stations process_stations checks for the scope of the invocation.
Candidates ==
    liteon_entries(StationData(pfid_info.acn[1], pfid_info.acc[1]),
                   pfid_info.acn[1], pfid_info.acc, pfid_info.acg, pfid_info.acs)

\* main_pfid has saved the progress of a deeper-scope scan and calls
\* process_stations.
InitScan ==
    /\ \E scope \in ScanScopes : pfid_info = parse_pfid_input(scope)
    /\ progressFile = deep_progress(pfid_info)
    /\ ledger = EmptyLedger
    /\ now = 0
    /\ pc = "scan_list"
    /\ exit_code = "none"
    /\ resume_progress = None
    /\ accs = << >>
    /\ completed_accs = << >>
    /\ all_results = << >>
    /\ i = 1
    /\ odd_ones = << >>
    /\ correct_schedule = << >>
    /\ site_key = ""
    /\ retry_sites = << >>
    /\ site_data = None
    /\ to_retry = << >>
    /\ accepted_count = 0
    /\ rejected_count = 0
    /\ failed_accs = {}
    /\ scanned = << >>
    /\ found = None
    /\ writes = << >>
    /\ last_result = None
    /\ AuxInit

\* fetch_station_data and the filter: with no station to check
\* process_stations returns at once.
ScanList(fetch_ok) ==
    /\ pc = "scan_list"
    /\ LET stations == fetch_station_data(pfid_info.acn[1], pfid_info.acc[1], fetch_ok)
           entries == liteon_entries(stations, pfid_info.acn[1], pfid_info.acc,
                                     pfid_info.acg, pfid_info.acs)
       IN  pc' = IF stations = << >> \/ entries = << >> THEN "scan_done" ELSE "scan_flag"
    /\ scanned' = Append(scanned, pfid_info.acc[1])
    /\ i' = 1
    /\ UNCHANGED << disk, exit_code, pfid_info, resume_progress, accs, completed_accs,
                    all_results, failed_accs, found, batch_vars >>
    /\ UNCHANGED aux_vars

\* The read of PricingScheduleEnable of the station in turn.  When the
\* invocation dies of the reply, last_result keeps the reply.
ScanFlag(response) ==
    /\ pc = "scan_flag"
    /\ LET enabled == extract_pricing_enabled(response)
       IN  IF enabled.raised
             THEN /\ Halt("crash")
                  /\ last_result' = Some(response)
             ELSE /\ pc' = IF enabled.value = Some(TRUE) THEN "scan_schedule"
                           ELSE "scan_enable"
                  /\ last_result' = Some(response)
                  /\ UNCHANGED << exit_code, i, sweep_vars, odd_ones, correct_schedule,
                                  site_key, retry_sites, site_data, to_retry,
                                  accepted_count, rejected_count, writes >>
    /\ UNCHANGED disk
    /\ UNCHANGED aux_vars

\* The write of PricingScheduleEnable: its reply is not looked at.
ScanEnable(result) ==
    /\ pc = "scan_enable"
    /\ pc' = "scan_schedule"
    /\ last_result' = Some(result)
    /\ UNCHANGED << disk, exit_code, i, sweep_vars, odd_ones, correct_schedule, site_key,
                    retry_sites, site_data, to_retry, accepted_count, rejected_count,
                    writes >>
    /\ UNCHANGED aux_vars

\* The read of PricingSchedule, the check and the result of the station.
ScanSchedule(response) ==
    /\ pc = "scan_schedule"
    /\ LET extracted == extract_pricing_schedule(response)
           checked == checked_schedule(extracted.value)
       IN  IF extracted.raised \/ checked.raised
             THEN /\ Halt("crash")
                  /\ last_result' = Some(response)
             ELSE /\ all_results' = Append(all_results,
                        [ pfid |-> Candidates[i].pfid,
                          acn_id |-> pfid_info.acn[1],
                          acc_id |-> pfid_info.acc[1],
                          schedule |-> checked.schedule,
                          enabled |-> TRUE,
                          all_correct |-> checked.all_correct,
                          mismatches |-> checked.mismatches ])
                  /\ i' = i + 1
                  /\ pc' = IF i = Len(Candidates) THEN "scan_done" ELSE "scan_flag"
                  /\ last_result' = Some(response)
                  /\ UNCHANGED << exit_code, pfid_info, resume_progress, accs,
                                  completed_accs, failed_accs, scanned, found, odd_ones,
                                  correct_schedule, site_key, retry_sites, site_data,
                                  to_retry, accepted_count, rejected_count, writes >>
    /\ UNCHANGED disk
    /\ UNCHANGED aux_vars

NextScan ==
    \/ \E fetch_ok \in BOOLEAN : ScanList(fetch_ok)
    \/ \E response \in FlagReplies : ScanFlag(response)
    \/ \E result \in EnableReplies : ScanEnable(result)
    \/ \E response \in ScheduleReplies : ScanSchedule(response)

SpecScan == InitScan /\ [][NextScan]_vars

\* ---------------------------------------------------------------------------
\* process_stations call by call with results gathered before: for an ACC
\* scope the call is the one the sweep makes for a child, with the results of
\* the children before it.
\* ---------------------------------------------------------------------------

\* What the sweep can have gathered from an earlier child, 01, of ACN 0060.
GatheredResults ==
    { << >> }
    \cup { << [ pfid |-> "0060-01-01-01",
                acn_id |-> "0060",
                acc_id |-> "01",
                schedule |-> r,
                enabled |-> TRUE,
                all_correct |-> check_schedule_values(r).all_correct,
                mismatches |-> check_schedule_values(r).mismatches ] >> : r \in Schedules }

InitGather ==
    /\ \E scope \in ScanScopes : pfid_info = parse_pfid_input(scope)
    /\ all_results \in IF pfid_info.acg = None THEN GatheredResults ELSE { << >> }
    /\ progressFile = deep_progress(pfid_info)
    /\ ledger = EmptyLedger
    /\ now = 0
    /\ pc = "scan_list"
    /\ exit_code = "none"
    /\ resume_progress = None
    /\ accs = << >>
    /\ completed_accs = << >>
    /\ i = 1
    /\ odd_ones = << >>
    /\ correct_schedule = << >>
    /\ site_key = ""
    /\ retry_sites = << >>
    /\ site_data = None
    /\ to_retry = << >>
    /\ accepted_count = 0
    /\ rejected_count = 0
    /\ failed_accs = {}
    /\ scanned = << >>
    /\ found = None
    /\ writes = << >>
    /\ last_result = None
    /\ AuxInit

SpecGather == InitGather /\ [][NextScan]_vars

\* ---------------------------------------------------------------------------
\* The scan of a deeper scope call by call, followed by the batch of
\* main_pfid and by the retry flow over the ledger it leaves.
\* ---------------------------------------------------------------------------

\* main_pfid: process_stations has returned, print_results is next.
ScanFinish ==
    /\ pc = "scan_done"
    /\ pc' = "results"
    /\ UNCHANGED << disk, exit_code, i, sweep_vars, batch_vars >>
    /\ UNCHANGED aux_vars

NextGate ==
    \/ NextScan
    \/ ScanFinish
    \/ ShowResults
    \/ \E yes \in BOOLEAN : ConfirmUpdate(yes)
    \/ \E result \in FlowResults : UpdateStation(result)
    \/ UpdateDone
    \/ StartRetry
    \/ \E ok \in BOOLEAN : GetJwt(ok)
    \/ RetryMenu
    \/ RetrySite
    \/ \E yes \in BOOLEAN : ConfirmRetry(yes)
    \/ \E result \in FlowResults : RetryStation(result)
    \/ RetryDone

SpecGate == InitScan /\ [][NextGate]_vars

\* ================================================================ the claims
IsPrefix(s, t) == Len(s) <= Len(t) /\ SubSeq(t, 1, Len(s)) = s

\* The first station record of a site with the pfid (the site holds one).
StationRecord(all_data, key, pfid) ==
    LET stations == all_data[key].stations
        n == CHOOSE m \in DOMAIN stations : stations[m].pfid = pfid
    IN  stations[n]

HasRecord(all_data, key, pfid) ==
    /\ key \in DOMAIN all_data
    /\ \E m \in DOMAIN all_data[key].stations : all_data[key].stations[m].pfid = pfid

InSweepLoop == pc \in { "sweep", "save", "save_dump" }
PastSweepLoop == pc \in { "results", "confirm", "update" }

\* C1: in a sweep that resumes from a checkpoint, the ACCs the checkpoint
\* lists as completed are skipped and no other; the remaining ACCs are
\* scanned in sorted order, the first of them being the one right after the
\* completed ones; and the results of the run start with the results the
\* checkpoint stored.
C1_ResumeSkipsCompleted ==
    (resume_progress # None /\ (InSweepLoop \/ PastSweepLoop)) =>
        LET stored == resume_progress[1]
            rest == SelectSeq(accs, LAMBDA acc : acc \notin Range(stored.completed_accs))
        IN  /\ IsPrefix(scanned, rest)
            /\ PastSweepLoop => scanned = rest
            /\ scanned # << >> => scanned[1] = accs[Len(stored.completed_accs) + 1]
            /\ IsPrefix(stored.results, all_results)
            /\ completed_accs = stored.completed_accs \o scanned

\* A sweep of two ACCs resumed after the first one has scanned the second.
C1_Witness ==
    /\ pc = "results"
    /\ resume_progress # None
    /\ Len(accs) = 2
    /\ resume_progress[1].completed_accs = << "09" >>
    /\ Len(resume_progress[1].results) = 1
    /\ scanned = << "12" >>
    /\ Len(all_results) = 2

\* C2: at every point of the sweep loop (an interrupt can land at any of
\* them, the write of the checkpoint included) the checkpoint a restart
\* would load lists every completed ACC except at most one.
C2_CheckpointLosesAtMostOne ==
    InSweepLoop =>
        LET loaded == load_progress(progressFile)
            kept == IF loaded # None /\ loaded[1].mode = "acn-only"
                       /\ loaded[1].acn_id = pfid_info.acn[1]
                      THEN Range(loaded[1].completed_accs)
                      ELSE {}
        IN  Cardinality(Range(completed_accs) \ kept) <= 1

\* The status of station pfid of site key, before and after a step, when the
\* site keeps holding the station.
StaysAccepted(key, pfid) ==
    (/\ HasRecord(ledger, key, pfid)
     /\ HasRecord(ledger', key, pfid)
     /\ StationRecord(ledger, key, pfid).update_status = "accepted")
    => StationRecord(ledger', key, pfid).update_status = "accepted"

AllPfids == { "0051-09-01-01", "0051-12-01-01", "0077-03-01-01" }

C4_FailedListingAborts ==
    failed_accs # {} =>
        /\ failed_accs \cap Range(completed_accs) = {}
        /\ load_progress(progressFile) # None =>
              failed_accs \cap Range(load_progress(progressFile)[1].completed_accs) = {}
        /\ ~InSweepLoop

\* ------------------------------------------------ one write and its outcome
\* A step of the update loop or the retry loop that got a reply.
WriteStep ==
    /\ pc \in { "update", "retry_update" }
    /\ pc' = pc
    /\ i' = i + 1

Batch == IF pc = "update" THEN odd_ones ELSE to_retry

Written == StationRecord(ledger', site_key, Batch[i].pfid)

Fields(result) ==
    IF result.natsResponse.kind = "dict" THEN result.natsResponse.fields ELSE EmptyDict

HasLabel(result) ==
    result.natsResponse.kind = "dict" /\ "status" \in DOMAIN Fields(result)

\* The detail of a rejection: the error field, else the message field, else
\* the reason field, else the serialized response.
Detail(d) ==
    IF "error" \in DOMAIN d THEN d["error"]
    ELSE IF "message" \in DOMAIN d THEN d["message"]
    ELSE IF "reason" \in DOMAIN d THEN d["reason"]
    ELSE IF "status" \in DOMAIN d THEN "{\"status\": \"" \o d["status"] \o "\"}"
    ELSE "{}"

LabelOutcome(result) ==
    /\ (HasLabel(result) /\ Fields(result)["status"] = "Accepted") =>
          /\ Written.update_status = "accepted"
          /\ Written.rejection_reason = None
    /\ (HasLabel(result) /\ Fields(result)["status"] # "Accepted") =>
          /\ Written.update_status = "rejected"
          /\ Written.rejection_reason = Some(Detail(Fields(result)))
    /\ result = Reply(None, NatsDict([status |-> "Rejected", reason |-> "busy"])) =>
          /\ Written.update_status = "rejected"
          /\ Written.rejection_reason = Some("busy")

LabelCounts(result) ==
    /\ (HasLabel(result) /\ Fields(result)["status"] = "Accepted") =>
          /\ accepted_count' = accepted_count + 1
          /\ rejected_count' = rejected_count
    /\ (HasLabel(result) /\ Fields(result)["status"] # "Accepted") =>
          /\ accepted_count' = accepted_count
          /\ rejected_count' = rejected_count + 1

C6_UnstructuredIsError ==
    [][WriteStep =>
         LET result == last_result'[1]
         IN  /\ result = CallFailure =>
                   /\ Written.update_status = "error"
                   /\ Written.rejection_reason = result.error
             /\ result.natsResponse.kind # "dict" => Written.update_status = "error"]_vars

\* A step in which set_configuration was called: one that got a reply, or
\* the one the invocation died in.
IssuedWrite == WriteStep \/ (pc \in { "update", "retry_update" } /\ exit_code' = "crash")

\* C7: every write that is issued leaves its mark in the ledger: the record
\* of the station carries the time of this attempt.
C7_EveryWriteUpdatesLedger ==
    [][IssuedWrite =>
         /\ ledger' # ledger
         /\ HasRecord(ledger', site_key, Batch[i].pfid)
         /\ StationRecord(ledger', site_key, Batch[i].pfid).last_attempt = Some(now')]_vars

\* ------------------------------------------------------------- the retry
\* main_retry_site has loaded a site with stations to retry and has not
\* been left for the next site.
InRetryOfSite ==
    \/ pc \in { "retry_confirm", "retry_update" }
    \/ pc = "retry_site" /\ to_retry # << >>

\* The retry loop of the site has run to its end.
RetryFinished == pc = "retry_site" /\ to_retry # << >> /\ i > Len(to_retry)

\* The operator declined the retry of the site.
RetryDeclined == pc = "retry_site" /\ to_retry # << >> /\ i = 1

OpenStatus == { "pending", "rejected", "error" }

\* C8: a retry of a site writes the site's stored corrective schedule once
\* to every station that was pending, rejected or in error when the site was
\* loaded, and to no other station; the records that were accepted then stay
\* as they were (status, detail, last attempt).  Declined, it writes nothing
\* and leaves the entry as it was.
C8_RetryWritesExactlyOpenRecords ==
    InRetryOfSite =>
        LET entry == site_data[1]
            open == { n \in DOMAIN entry.stations :
                        entry.stations[n].update_status \in OpenStatus }
            open_pfids == { entry.stations[n].pfid : n \in open }
        IN  /\ Len(writes) = i - 1
            /\ \A n \in DOMAIN writes :
                  /\ writes[n].pfid \in open_pfids
                  /\ writes[n].key = "PricingSchedule"
                  /\ writes[n].value = entry.correct_schedule
                  /\ \A m \in DOMAIN writes : writes[m].pfid = writes[n].pfid => m = n
            /\ RetryFinished => { writes[n].pfid : n \in DOMAIN writes } = open_pfids
            /\ RetryDeclined =>
                  writes = << >> /\ site_key \in DOMAIN ledger /\ ledger[site_key] = entry
            /\ \A n \in DOMAIN entry.stations :
                  (entry.stations[n].update_status = "accepted" /\ site_key \in DOMAIN ledger)
                  => ledger[site_key].stations[n] = entry.stations[n]

\* A retry has run to its end on a site that held an accepted station and an
\* open one.
C8_Witness ==
    /\ RetryFinished
    /\ Len(writes) = 1
    /\ Len(site_data[1].stations) = 2
    /\ \E n \in DOMAIN site_data[1].stations :
          site_data[1].stations[n].update_status = "accepted"
    /\ site_key \in DOMAIN ledger

\* C9: when the loop of a confirmed retry is over, the site's entry is gone
\* from the ledger exactly if every station of it is accepted by then; if it
\* stays, it stays as the loop left it, and no other entry changes.
C9_RemovedIffAllAccepted ==
    [][(pc = "retry_update" /\ pc' = "retry_site") =>
         /\ site_key \in DOMAIN ledger
         /\ (site_key \notin DOMAIN ledger') <=> all_accepted(ledger[site_key].stations)
         /\ \A key \in DOMAIN ledger' : key \in DOMAIN ledger /\ ledger'[key] = ledger[key]
         /\ DOMAIN ledger \ { site_key } \subseteq DOMAIN ledger']_vars

\* The retry of a site with one accepted and one open station succeeded and
\* the site is gone.
C9_Witness ==
    /\ RetryFinished
    /\ Len(site_data[1].stations) = 2
    /\ Len(to_retry) = 1
    /\ accepted_count = 1
    /\ site_key \notin DOMAIN ledger

\* C10: remove_completed_site deletes the entry of the key exactly if the
\* key is in the ledger and every station of its entry is accepted, the
\* other entries staying as they are; in every other case the ledger is
\* unchanged.
C10_RemoveCompletedSite ==
    [][pc = "remove" =>
         LET complete == /\ site_key \in DOMAIN ledger
                         /\ \A n \in DOMAIN ledger[site_key].stations :
                               ledger[site_key].stations[n].update_status = "accepted"
         IN  /\ complete =>
                   /\ DOMAIN ledger' = DOMAIN ledger \ { site_key }
                   /\ \A key \in DOMAIN ledger' : ledger'[key] = ledger[key]
             /\ ~complete => ledger' = ledger]_vars

\* The fully accepted site 0051 was removed and the other site is still there.
C10_Witness ==
    /\ pc = "removed"
    /\ site_key = "0051"
    /\ DOMAIN ledger = { "0051-09" }
    /\ ledger["0051-09"].stations[1].update_status = "rejected"

\* ------------------------------------------------------------- the upsert
\* The step of prompt_update_odd_ones that saves the batch to the ledger.
UpsertStep == pc = "results" /\ pc' = "confirm"

\* C11: after a detection scan has saved its deviating stations, the entry
\* under the scope's key holds exactly those stations, in the order the scan
\* found them, each pending with no detail and with the schedule and the
\* mismatches the scan observed, whatever the entry held before; the entries
\* of the other keys stay as they were.
C11_UpsertReplacesAndResets ==
    [][UpsertStep =>
         LET key == get_site_key(pfid_info.acn[1], pfid_info.acc, pfid_info.acg,
                                 pfid_info.acs, pfid_info.mode)
             odd == SelectSeq(all_results, LAMBDA r : r.all_correct = "False")
         IN  /\ key \in DOMAIN ledger'
             /\ Len(ledger'[key].stations) = Len(odd)
             /\ \A n \in DOMAIN odd :
                   LET s == ledger'[key].stations[n]
                   IN  /\ s.pfid = odd[n].pfid
                       /\ s.update_status = "pending"
                       /\ s.rejection_reason = None
                       /\ s.current_schedule = odd[n].schedule
                       /\ s.mismatches = odd[n].mismatches
                       /\ s.mismatches # << >>
             /\ \A other \in DOMAIN ledger \ { key } :
                   other \in DOMAIN ledger' /\ ledger'[other] = ledger[other]]_vars

\* The entry of ACN 0051 held station 09 accepted and station 12 rejected,
\* both with the schedule f = 0.3; the new scan found only station 09
\* deviating, with another schedule: the entry now holds station 09 alone,
\* pending, with the new schedule.
C11_Witness ==
    /\ pc = "confirm"
    /\ site_key = "0051"
    /\ site_data # None
    /\ Len(site_data[1].stations) = 2
    /\ site_data[1].stations[1].pfid = "0051-09-01-01"
    /\ site_data[1].stations[1].update_status = "accepted"
    /\ site_data[1].stations[2].update_status = "rejected"
    /\ Len(ledger["0051"].stations) = 1
    /\ ledger["0051"].stations[1].pfid = "0051-09-01-01"
    /\ ledger["0051"].stations[1].update_status = "pending"
    /\ ledger["0051"].stations[1].current_schedule # site_data[1].stations[1].current_schedule

\* ------------------------------------------------------- the resume check
\* A sweep (acn-only mode) that is past check_resume_progress.
SweepPastResumeCheck ==
    /\ pfid_info.mode = Some("acn-only")
    /\ pc \in { "jwt", "expand" } \/ InSweepLoop \/ PastSweepLoop

\* The sweep is between check_resume_progress and the first pass of its loop.
BeforeFirstPass ==
    /\ pfid_info.mode = Some("acn-only")
    /\ pc \in { "jwt", "expand" } \/ (pc = "sweep" /\ i = 1)

\* The checkpoint that was found records the ACN and the mode of this sweep.
FoundMatches ==
    /\ found[1].acn_id = pfid_info.acn[1]
    /\ found[1].mode = "acn-only"

\* C12: a sweep resumes from the checkpoint it found only if the checkpoint
\* records the sweep's ACN and the mode acn-only; when the checkpoint does not
\* match or the operator declined, the checkpoint file is gone before the
\* sweep goes on, and the loop starts with no completed ACC and no result.
C12_ResumeOnlyOnMatch ==
    /\ BeforeFirstPass =>
          /\ resume_progress # None => (found = resume_progress /\ FoundMatches)
          /\ (found # None /\ ~FoundMatches) => resume_progress = None
          /\ (found # None /\ resume_progress = None) => progressFile = Absent
          /\ (resume_progress = None /\ pc = "sweep")
                => (completed_accs = << >> /\ all_results = << >>)
    /\ (SweepPastResumeCheck /\ resume_progress = None /\ InSweepLoop)
          => completed_accs = scanned

\* The sweep of ACN 0077 found the checkpoint of an interrupted sweep of
\* another ACN with a completed ACC in it: the file is gone and the loop
\* starts empty.
C12_Witness ==
    /\ pc = "sweep"
    /\ pfid_info.acn = Some("0077")
    /\ i = 1
    /\ scanned = << >>
    /\ found # None
    /\ found[1].mode = "acn-only"
    /\ found[1].acn_id = "0051"
    /\ found[1].completed_accs # << >>
    /\ resume_progress = None
    /\ completed_accs = << >>
    /\ all_results = << >>
    /\ progressFile = Absent

\* ------------------------------------------------- scans of deeper scopes
\* The running invocation scans a scope below the ACN.
DeepScanRunning ==
    /\ pc # "idle"
    /\ pfid_info.mode \in { Some("acn-acc"), Some("acn-acc-acg"), Some("acn-acc-acg-acs") }

\* C13: no step of a scan of a deeper scope touches the checkpoint file: it
\* neither creates, overwrites nor deletes it.
C13_DeepScanKeepsCheckpoint ==
    [][DeepScanRunning => progressFile' = progressFile]_vars

\* ------------------------------------------------------- the scan results
\* The entries of a result's schedule whose factor is not 0.5, in order.
WrongEntries(r) ==
    IF r.schedule = None THEN << >>
    ELSE SelectSeq(r.schedule[1], LAMBDA e : e.f # EXPECTED_F)

\* C15: every scan result is conforming exactly if its schedule is present
\* and every entry has the factor 0.5 (a present schedule without entries
\* included), deviating exactly if some entry has another factor, the
\* mismatches being those entries in order, and indeterminate exactly if the
\* schedule is absent.
C15_ClassifyAsClaimed ==
    \A n \in DOMAIN all_results :
        LET r == all_results[n]
        IN  /\ r.all_correct = "True" <=> (r.schedule # None /\ WrongEntries(r) = << >>)
            /\ r.all_correct = "False" <=> WrongEntries(r) # << >>
            /\ r.all_correct = "False" => r.mismatches = WrongEntries(r)
            /\ r.all_correct = "None" <=> r.schedule = None

\* ------------------------------------------------------- the scope filter
\* The segments of an identifier, split at the hyphens.
RECURSIVE Segments(_)
Segments(text) ==
    LET hyphens == { k \in 1..Len(text) : SubSeq(text, k, k) = "-" }
    IN  IF hyphens = {} THEN << text >>
        ELSE LET k == CHOOSE h \in hyphens : \A o \in hyphens : h <= o
             IN  << SubSeq(text, 1, k - 1) >> \o Segments(SubSeq(text, k + 1, Len(text)))

\* Scope containment as claimed, for the scope of the invocation: under an
\* ACG scope the identifier begins with acn-acc-acg; under an ACS scope its
\* fourth segment is moreover the ACS itself.
InScopeAsClaimed(pfid) ==
    /\ pfid_info.acg # None =>
          startswith(pfid, pfid_info.acn[1] \o "-" \o pfid_info.acc[1] \o "-"
                           \o pfid_info.acg[1])
    /\ pfid_info.acs # None =>
          /\ Len(Segments(pfid)) >= 4
          /\ Segments(pfid)[4] = pfid_info.acs[1]

\* C16: the scan checks no station outside the scope: every result is of a
\* station the scope contains.
C16_ResultsWithinScope ==
    \A n \in DOMAIN all_results : InScopeAsClaimed(all_results[n].pfid)

\* ------------------------------------------------ failures during the scan
ScanningStations == pc \in { "scan_flag", "scan_enable", "scan_schedule" }

\* The results so far are of the first stations of the scope, one each.
OneResultEach(count) ==
    /\ Len(all_results) = count
    /\ \A n \in 1..count : all_results[n].pfid = Candidates[n].pfid

\* C17: a failed call (the flag read, the enable write or the schedule read)
\* does not end the scan: after a failed flag read the enable write follows,
\* after a failed enable write the schedule read, and a failed schedule read
\* leaves the station with an indeterminate result without mismatches, with
\* the next station in turn.  At any point the stations before the one in
\* turn have exactly one result each, and at the end every station of the
\* scope has.
C17_FailureNeverAbortsScan ==
    /\ [](ScanningStations => (i <= Len(Candidates) /\ OneResultEach(i - 1)))
    /\ []((pc = "scan_done" /\ i > 1) => OneResultEach(Len(Candidates)))
    /\ [][(ScanningStations /\ last_result' = Some(CallFailure)) =>
            /\ exit_code' = "none"
            /\ pc = "scan_flag" => (pc' = "scan_enable" /\ all_results' = all_results)
            /\ pc = "scan_enable" => (pc' = "scan_schedule" /\ all_results' = all_results)
            /\ pc = "scan_schedule" =>
                  /\ pc' = IF i < Len(Candidates) THEN "scan_flag" ELSE "scan_done"
                  /\ i' = i + 1
                  /\ SubSeq(all_results', 1, Len(all_results)) = all_results
                  /\ Len(all_results') = Len(all_results) + 1
                  /\ all_results'[i].pfid = Candidates[i].pfid
                  /\ all_results'[i].schedule = None
                  /\ all_results'[i].all_correct = "None"
                  /\ all_results'[i].mismatches = << >>]_vars

\* The schedule read of the first station failed: the station is recorded
\* indeterminate and the second station is in turn.
C17_Witness ==
    /\ pc = "scan_flag"
    /\ i = 2
    /\ last_result = Some(CallFailure)
    /\ Len(all_results) = 1
    /\ all_results[1].pfid = "0060-02-01-02"
    /\ all_results[1].all_correct = "None"
    /\ all_results[1].mismatches = << >>

\* ------------------------------------------------------ malformed replies
\* C18: no invocation ends with an exception that nothing handles, whatever
\* the replies to its reads and writes look like.
C18_NoReplyCrashes == exit_code # "crash"

\* ------------------------------------------------- the uninterrupted sweep
Terminated == pc = "idle" /\ exit_code # "none"

\* The ACCs the sweep has to scan: those of the ACN it did not take over as
\* completed from the checkpoint, in order.
ToScan ==
    IF resume_progress = None THEN accs
    ELSE SelectSeq(accs, LAMBDA acc : acc \notin Range(resume_progress[1].completed_accs))

\* C14: a sweep that is not interrupted terminates; when its loop is over it
\* has scanned every ACC that was not completed before exactly once, in
\* order; and when it has ended gracefully (exit status 0, whether the
\* operator confirmed the update or not) there is no checkpoint file.
C14_SweepTerminatesAndCleansUp ==
    /\ <>Terminated
    /\ []((PastSweepLoop /\ pfid_info.mode = Some("acn-only")) => scanned = ToScan)
    /\ []((Terminated /\ exit_code = "0") => progressFile = Absent)

\* The sweep of ACN 0051 found deviating stations, saved them, wrote to one
\* at least and ended gracefully: there is no checkpoint.
C14_Witness ==
    /\ Terminated
    /\ exit_code = "0"
    /\ progressFile = Absent
    /\ "0051" \in DOMAIN ledger
    /\ ledger["0051"].last_updated > ledger["0051"].saved_at

\* ------------------------------------------------------- the full batch
\* The update loop or the retry loop is left, and not by an interrupt.
BatchLeft ==
    /\ pc \in { "update", "retry_update" }
    /\ pc' # pc
    /\ exit_code' # "sigint"

\* C19: when the loop over a confirmed batch is left, one write has been
\* issued for every record of the batch, in batch order, and the counts add
\* up to the size of the batch.
C19_FullBatchWritten ==
    [][BatchLeft =>
         /\ Len(writes) = Len(Batch)
         /\ \A n \in DOMAIN writes : writes[n].pfid = Batch[n].pfid
         /\ accepted_count + rejected_count = Len(Batch)]_vars

\* ------------------------------------------------ the calls of retry mode
InRetryMode ==
    pc \in { "retry_jwt", "retry_menu", "retry_site", "retry_confirm", "retry_update" }

\* C20: in retry mode process_stations never runs (no station listing, no
\* read, no enable write: nothing is scanned and there are no scan results),
\* and every call to a station is a write of the key PricingSchedule with the
\* schedule stored in the site's ledger entry, to a station of that entry.
C20_RetryOnlyWritesStoredSchedule ==
    InRetryMode =>
        /\ scanned = << >>
        /\ all_results = << >>
        /\ \A n \in DOMAIN writes :
              /\ writes[n].key = "PricingSchedule"
              /\ site_data # None
              /\ writes[n].value = site_data[1].correct_schedule
              /\ \E m \in DOMAIN site_data[1].stations :
                    site_data[1].stations[m].pfid = writes[n].pfid

\* A retry has written to a station the schedule a conforming station of the
\* site was read with, which the scan had stored in the entry.
C20_Witness ==
    /\ pc = "retry_update"
    /\ Len(writes) = 1
    /\ writes[1].value = << [t |-> 0, f |-> 5] >>
    /\ site_data[1].correct_schedule = << [t |-> 0, f |-> 5] >>

\* ---------------------------------------------------------------------------
\* One sweep over the checkpoints earlier runs can leave, with the credential
\* at hand: what ends the invocation with status 1 is the directory.
\* ---------------------------------------------------------------------------

\* main, l.1403: get_jwt succeeds.
GetJwtOk == GetJwt(TRUE)

NextSweep ==
    \/ \E acn \in SweepAcns : StartSweepOnce(acn)
    \/ \E yes \in BOOLEAN : AnswerResume(yes)
    \/ GetJwtOk
    \/ \E fetch_ok \in BOOLEAN : Expand(fetch_ok)
    \/ SkipAcc
    \/ \E fetch_ok \in BOOLEAN : ProcessAcc(fetch_ok)
    \/ SaveProgressOpen
    \/ SaveProgressDump
    \/ SweepDone

SpecSweep == InitLive /\ [][NextSweep]_vars

\* ---------------------------------------------------------------------------
\* get_site_data on its own: the directory from the cache or from the
\* service, over caches of every kind and age.
\* ---------------------------------------------------------------------------

CACHE_MAX_AGE_DAYS == 7

\* The oldest cache looked at, in days.
MaxAgeDays == 8

\* A directory that is not the one of SiteData.
OtherRows == << [acn_id |-> "0077", acc_id |-> "09"] >>

DirectoryRows == { << >>, SiteData, OtherRows }

\* sites_cache.json: missing, not parseable, or the rows json.dump wrote; age
\* is the age of the file in whole days.
CacheFiles ==
    { Absent }
    \cup { [kind |-> "partial", age |-> a] : a \in 0..MaxAgeDays }
    \cup { [kind |-> "json", rows |-> r, age |-> a] :
             r \in DirectoryRows, a \in 0..MaxAgeDays }

\* What the request of fetch_site_data_from_api comes to: a failure (curl,
\* no JSON, bad JSON) or a list of rows.
ApiReplies ==
    { [ok |-> FALSE] } \cup { [ok |-> TRUE, rows |-> r] : r \in DirectoryRows }

is_cache_valid(file) ==
    file.kind # "absent" /\ file.age < CACHE_MAX_AGE_DAYS

load_cached_data(file) ==
    IF file.kind = "json" THEN Some(file.rows) ELSE None

\* save_to_cache: the file is rewritten now.
save_to_cache(data) == [kind |-> "json", rows |-> data, age |-> 0]

\* get_site_data, l.296-300: whether the cached rows are returned.  An empty
\* list is not truthy.
served_from_cache(no_cache, file) ==
    /\ ~no_cache
    /\ is_cache_valid(file)
    /\ load_cached_data(file) # None
    /\ load_cached_data(file)[1] # << >>

InitCache ==
    /\ cacheFile \in CacheFiles
    /\ refresh \in BOOLEAN
    /\ argv = << >>
    /\ site_rows = << >>
    /\ calls = << >>
    /\ jwt_refresh_timer = None
    /\ jwt_lock = None
    /\ timers = << >>
    /\ acquiring = {}
    /\ do_update = None
    /\ progressFile = Absent
    /\ ledger = EmptyLedger
    /\ now = 0
    /\ pc = "get_site_data"
    /\ exit_code = "none"
    /\ FlowInit

\* get_site_data: the cached rows, or fetch_site_data_from_api, which saves
\* what it fetched to the cache and ends the invocation when it fails.
GetSiteData(api) ==
    /\ pc = "get_site_data"
    /\ IF served_from_cache(refresh, cacheFile)
         THEN /\ site_rows' = load_cached_data(cacheFile)[1]
              /\ pc' = "got_site_data"
              /\ UNCHANGED << cacheFile, calls, exit_code >>
         ELSE /\ calls' = Append(calls, "directory")
              /\ IF api.ok
                   THEN /\ site_rows' = api.rows
                        /\ cacheFile' = save_to_cache(api.rows)
                        /\ pc' = "got_site_data"
                        /\ UNCHANGED exit_code
                   ELSE /\ pc' = "idle"
                        /\ exit_code' = "1"
                        /\ UNCHANGED << site_rows, cacheFile >>
    /\ UNCHANGED << disk, i, sweep_vars, batch_vars, argv, refresh, jwt_vars, do_update >>

NextCache == \E api \in ApiReplies : GetSiteData(api)

SpecCache == InitCache /\ [][NextCache]_vars

\* ---------------------------------------------------------------------------
\* The arguments of an invocation: what main makes of sys.argv, and the key
\* main_pfid derives from the parsed scope.
\* ---------------------------------------------------------------------------

\* " ".join(args).
RECURSIVE join_args(_)
join_args(args) ==
    IF args = << >> THEN ""
    ELSE IF Len(args) = 1 THEN args[1]
    ELSE args[1] \o " " \o join_args(Tail(args))

\* A text left as it is.
keep_hyphens(text) == text

\* combined.replace("-", " ").
RECURSIVE replace_hyphens(_)
replace_hyphens(text) ==
    IF text = "" THEN ""
    ELSE (IF SubSeq(text, 1, 1) = "-" THEN " " ELSE SubSeq(text, 1, 1))
         \o replace_hyphens(SubSeq(text, 2, Len(text)))

\* str.split(): the non-empty pieces between the blanks.
RECURSIVE split(_)
split(text) ==
    LET blanks == { k \in 1..Len(text) : SubSeq(text, k, k) = " " }
    IN  IF text = "" THEN << >>
        ELSE IF blanks = {} THEN << text >>
        ELSE LET k == CHOOSE b \in blanks : \A o \in blanks : b <= o
             IN  (IF k = 1 THEN << >> ELSE << SubSeq(text, 1, k - 1) >>)
                 \o split(SubSeq(text, k + 1, Len(text)))

\* parse_pfid_input, l.49-55: the parts of the arguments.
pfid_parts(args) == split(replace_hyphens(join_args(args)))

\* Every argument taken for a part of the scope.
pfid_args_unfiltered(args) == args

\* main, l.1373: the arguments that are not options.
pfid_args(args) == SelectSeq(args, LAMBDA arg : ~startswith(arg, "--"))

\* The most tokens an invocation is given.
MaxTokens == 5

ScopeTokens == { "0051", "09" }

TokenSeqs == UNION { [1..n -> ScopeTokens] : n \in 0..MaxTokens }

RECURSIVE JoinWith(_, _)
JoinWith(tokens, sep) ==
    IF tokens = << >> THEN ""
    ELSE IF Len(tokens) = 1 THEN tokens[1]
    ELSE tokens[1] \o sep \o JoinWith(Tail(tokens), sep)

\* Ways of giving the same tokens on the command line: one argument each,
\* one argument with hyphens or blanks or both between them, the first alone
\* and the rest hyphenated, an option in front.
Spellings(tokens) ==
    IF tokens = << >>
      THEN { << >>, << "-" >>, << " - " >>, << "--verbose" >>, << "--verbose", "-" >> }
      ELSE { tokens,
             << JoinWith(tokens, "-") >>,
             << JoinWith(tokens, " ") >>,
             << JoinWith(tokens, " - ") >>,
             << tokens[1], JoinWith(Tail(tokens), "-") >>,
             << "--verbose" >> \o tokens }

ParseLedgers ==
    { EmptyLedger,
      save_odd_ones_out(EmptyLedger, BothOdd, get_correct_schedule(<< >>), Some("0051"),
                        None, None, None, Some("acn-only"), 1) }

InitParse ==
    /\ argv \in UNION { Spellings(tokens) : tokens \in TokenSeqs }
                \cup { << "--retry" >>, << "--retry", "0051" >> }
    /\ progressFile \in { Absent,
                           sweep_progress("0051", << "09", "12" >>, << "09" >>, << >>) }
    /\ ledger \in ParseLedgers
    /\ now = 1
    /\ pc = "main"
    /\ exit_code = "none"
    /\ FlowInit
    /\ refresh = FALSE
    /\ cacheFile = Absent
    /\ site_rows = << >>
    /\ calls = << >>
    /\ jwt_refresh_timer = None
    /\ jwt_lock = None
    /\ timers = << >>
    /\ acquiring = {}
    /\ do_update = None

\* main, l.1344-1381: retry mode, the usage message, or the scope and the
\* test that it names an ACN at least.
ParseArgs ==
    /\ pc = "main"
    /\ IF "--retry" \in Range(argv)
         THEN /\ pc' = "retry_jwt"
              /\ UNCHANGED << exit_code, i, sweep_vars, batch_vars >>
         ELSE IF argv = << >>
           THEN Exit("1")
           ELSE LET info == parse_pfid_input(pfid_parts(pfid_args(argv)))
                IN  IF info.acn = None
                      THEN Exit("1")
                      ELSE /\ pfid_info' = info
                           /\ pc' = "parsed"
                           /\ UNCHANGED << exit_code, i, resume_progress, accs,
                                           completed_accs, all_results, failed_accs,
                                           scanned, found, batch_vars >>
    /\ UNCHANGED disk
    /\ UNCHANGED aux_vars

\* main_pfid, l.1000-1007: the key of the scope.
SiteKey ==
    /\ pc = "parsed"
    /\ site_key' = get_site_key(pfid_info.acn[1], pfid_info.acc, pfid_info.acg,
                                pfid_info.acs, pfid_info.mode)
    /\ pc' = "keyed"
    /\ UNCHANGED << disk, exit_code, i, sweep_vars, odd_ones, correct_schedule,
                    retry_sites, site_data, to_retry, accepted_count, rejected_count,
                    writes, last_result >>
    /\ UNCHANGED aux_vars

NextParse == ParseArgs \/ SiteKey

SpecParse == InitParse /\ [][NextParse]_vars

\* ---------------------------------------------------------------------------
\* get_accs_for_acn on its own, over directories of a few rows.
\* ---------------------------------------------------------------------------

\* The rows of the longest directory looked at.
MaxRows == 3

DirectoryRow ==
    { [acn_id |-> acn, acc_id |-> acc] :
        acn \in { "0051", "0077" }, acc \in { "", "100", "12", "2" } }

Directories == UNION { [1..n -> DirectoryRow] : n \in 0..MaxRows }

\* main_pfid has the directory and calls get_accs_for_acn (l.1024).
InitAccs ==
    /\ site_rows \in Directories
    /\ \E acn \in { "0051", "0077" } : pfid_info = parse_pfid_input(<< acn >>)
    /\ progressFile = Absent
    /\ ledger = EmptyLedger
    /\ now = 0
    /\ pc = "get_accs"
    /\ exit_code = "none"
    /\ resume_progress = None
    /\ accs = << >>
    /\ completed_accs = << >>
    /\ all_results = << >>
    /\ i = 1
    /\ odd_ones = << >>
    /\ correct_schedule = << >>
    /\ site_key = ""
    /\ retry_sites = << >>
    /\ site_data = None
    /\ to_retry = << >>
    /\ accepted_count = 0
    /\ rejected_count = 0
    /\ failed_accs = {}
    /\ scanned = << >>
    /\ found = None
    /\ writes = << >>
    /\ last_result = None
    /\ argv = << >>
    /\ refresh = FALSE
    /\ cacheFile = Absent
    /\ calls = << >>
    /\ jwt_refresh_timer = None
    /\ jwt_lock = None
    /\ timers = << >>
    /\ acquiring = {}
    /\ do_update = None

\* main_pfid, l.1024: accs = get_accs_for_acn(site_data, acn).
GetAccs ==
    /\ pc = "get_accs"
    /\ accs' = get_accs_for_acn(site_rows, pfid_info.acn[1])
    /\ pc' = "got_accs"
    /\ UNCHANGED << disk, exit_code, i, pfid_info, resume_progress, completed_accs,
                    all_results, failed_accs, scanned, found, batch_vars >>
    /\ UNCHANGED aux_vars

SpecAccs == InitAccs /\ [][GetAccs]_vars

\* ---------------------------------------------------------------------------
\* Sweeps of ACN 0051 over a directory that changes between runs: every
\* invocation expands the ACN from the rows get_site_data returns to it.
\* ---------------------------------------------------------------------------

\* The directory as it is, with ACC 09 gone, and with ACC 09 replaced by a
\* new ACC 15 that has no station yet.
ChangingDirectories ==
    { SiteData,
      << [acn_id |-> "0051", acc_id |-> "12"] >>,
      << [acn_id |-> "0051", acc_id |-> "15"], [acn_id |-> "0051", acc_id |-> "12"] >> }

\* main_pfid, acn-only, up to the loop, with the rows get_site_data returned.
ExpandDirectory(rows) ==
    /\ pc = "expand"
    /\ LET acn == pfid_info.acn[1]
           acc_list == get_accs_for_acn(rows, acn)
           resumed == resume_progress # None /\ resume_progress[1].acn_id = acn
       IN  IF acc_list = << >>
             THEN Exit("1")
             ELSE /\ accs' = acc_list
                  /\ completed_accs' = IF resumed THEN resume_progress[1].completed_accs
                                       ELSE << >>
                  /\ all_results' = IF resumed THEN resume_progress[1].results ELSE << >>
                  /\ i' = 1
                  /\ pc' = "sweep"
                  /\ UNCHANGED << exit_code, pfid_info, resume_progress, failed_accs,
                                  scanned, found, batch_vars >>
    /\ UNCHANGED disk
    /\ site_rows' = rows
    /\ UNCHANGED << argv, refresh, cacheFile, calls, jwt_vars, do_update >>

NextDirectory ==
    \/ \E acn \in { "0051" } : StartSweep(acn)
    \/ \E yes \in BOOLEAN : AnswerResume(yes)
    \/ \E ok \in BOOLEAN : GetJwt(ok)
    \/ \E rows \in ChangingDirectories : ExpandDirectory(rows)
    \/ SkipAcc
    \/ \E fetch_ok \in BOOLEAN : ProcessAcc(fetch_ok)
    \/ SaveProgressOpen
    \/ SaveProgressDump
    \/ SweepDone
    \/ ShowResults
    \/ \E yes \in BOOLEAN : ConfirmUpdate(yes)
    \/ \E result \in FlowResults : UpdateStation(result)
    \/ UpdateDone
    \/ Interrupt

SpecDirectory == Init /\ [][NextDirectory]_vars

\* ---------------------------------------------------------------------------
\* The credential and its renewal: the main thread of a scan invocation from
\* get_jwt on, and the threads of the timers that run refresh_jwt.
\* ---------------------------------------------------------------------------

\* The timers one invocation lives long enough to create.
MaxTimers == 3

\* The main thread, where timer threads are numbered from 1.
MainThread == 0

\* What the steps of this part leave alone.
jwt_frame == << disk, i, sweep_vars, batch_vars, argv, refresh, cacheFile, site_rows, calls,
               do_update >>
timer_frame == << pc, exit_code, jwt_frame >>

\* main has parsed the scope and is about to call get_jwt (l.1403).
InitJwt ==
    /\ progressFile = Absent
    /\ ledger = EmptyLedger
    /\ now = 0
    /\ pc = "get_jwt"
    /\ exit_code = "none"
    /\ FlowInit
    /\ AuxInit

\* threading.Timer.cancel: a timer that still waits never runs its function;
\* one whose function has started is not affected.
cancel(timer_states, id) ==
    [timer_states EXCEPT ![id] = IF @ = "waiting" THEN "cancelled" ELSE @]

\* main, l.1403: get_jwt is entered.
JwtCall ==
    /\ pc = "get_jwt"
    /\ pc' = "in_get_jwt"
    /\ acquiring' = acquiring \cup { MainThread }
    /\ UNCHANGED << exit_code, jwt_refresh_timer, jwt_lock, timers, jwt_frame >>

\* main, l.1403-1405: get_jwt returns.
JwtReturn(ok) ==
    /\ pc = "in_get_jwt"
    /\ acquiring' = acquiring \ { MainThread }
    /\ pc' = IF ok THEN "start_timer" ELSE "idle"
    /\ exit_code' = IF ok THEN exit_code ELSE "1"
    /\ UNCHANGED << jwt_refresh_timer, jwt_lock, timers, jwt_frame >>

\* start_jwt_refresh_timer: no timer exists yet, so its call of
\* stop_jwt_refresh_timer does nothing; the first timer is created and started.
StartJwtRefreshTimer ==
    /\ pc = "start_timer"
    /\ jwt_refresh_timer = None
    /\ timers' = Append(timers, "waiting")
    /\ jwt_refresh_timer' = Some(Len(timers) + 1)
    /\ pc' = "fetch"
    /\ UNCHANGED << exit_code, jwt_lock, acquiring, jwt_frame >>

\* fetch_site_data_from_api, l.239-249: the request; when the answer says the
\* token expired, get_jwt is entered, with no lock taken.
FetchSites(expired) ==
    /\ pc = "fetch"
    /\ IF expired
         THEN /\ pc' = "fetch_get_jwt"
              /\ acquiring' = acquiring \cup { MainThread }
         ELSE /\ pc' = "main_work"
              /\ UNCHANGED acquiring
    /\ UNCHANGED << exit_code, jwt_refresh_timer, jwt_lock, timers, jwt_frame >>

\* fetch_site_data_from_api, l.249-258: get_jwt returns; on failure
\* sys.exit(1), which leaves through the finally of main.
FetchRenewed(ok) ==
    /\ pc = "fetch_get_jwt"
    /\ acquiring' = acquiring \ { MainThread }
    /\ pc' = IF ok THEN "main_work" ELSE "stop_cancel"
    /\ exit_code' = IF ok THEN exit_code ELSE "1"
    /\ UNCHANGED << jwt_refresh_timer, jwt_lock, timers, jwt_frame >>

\* main, l.1410-1414: main_pfid returns and the finally is entered.
MainDone ==
    /\ pc = "main_work"
    /\ pc' = "stop_cancel"
    /\ exit_code' = "0"
    /\ UNCHANGED << jwt_vars, jwt_frame >>

\* signal_handler, l.1107-1111: SIGINT arrives while main_pfid runs; the main
\* thread leaves what it was doing and calls stop_jwt_refresh_timer.
SignalHandler ==
    /\ pc \in { "fetch", "fetch_get_jwt", "main_work" }
    /\ pc' = "sig_stop_cancel"
    /\ exit_code' = "sigint"
    /\ acquiring' = acquiring \ { MainThread }
    /\ UNCHANGED << jwt_refresh_timer, jwt_lock, timers, jwt_frame >>

\* stop_jwt_refresh_timer, l.191-192: the test and the cancel.
StopCancel ==
    /\ pc \in { "stop_cancel", "sig_stop_cancel" }
    /\ IF jwt_refresh_timer = None
         THEN /\ pc' = IF pc = "stop_cancel" THEN "stopped" ELSE "sig_stopped"
              /\ UNCHANGED timers
         ELSE /\ pc' = IF pc = "stop_cancel" THEN "stop_clear" ELSE "sig_stop_clear"
              /\ timers' = cancel(timers, jwt_refresh_timer[1])
    /\ UNCHANGED << exit_code, jwt_refresh_timer, jwt_lock, acquiring, jwt_frame >>

\* stop_jwt_refresh_timer, l.193: the global is cleared.
StopClear ==
    /\ pc \in { "stop_clear", "sig_stop_clear" }
    /\ jwt_refresh_timer' = None
    /\ pc' = IF pc = "stop_clear" THEN "stopped" ELSE "sig_stopped"
    /\ UNCHANGED << exit_code, jwt_lock, timers, acquiring, jwt_frame >>

\* signal_handler, l.1112: sys.exit(0), which leaves through the finally of
\* main, where stop_jwt_refresh_timer is called once more.
SignalExit ==
    /\ pc = "sig_stopped"
    /\ pc' = "stop_cancel"
    /\ UNCHANGED << exit_code, jwt_vars, jwt_frame >>

\* main returns: the process ends and its daemon threads with it.
ProcessExit ==
    /\ pc = "stopped"
    /\ pc' = "idle"
    /\ jwt_refresh_timer' = None
    /\ jwt_lock' = None
    /\ timers' = << >>
    /\ acquiring' = {}
    /\ UNCHANGED << exit_code, jwt_frame >>

\* threading.Timer.run: the interval is over and the timer was not cancelled;
\* refresh_jwt starts and waits for the lock.
TimerFire(id) ==
    /\ pc # "idle"
    /\ id \in DOMAIN timers
    /\ timers[id] = "waiting"
    /\ timers' = [timers EXCEPT ![id] = "lock"]
    /\ UNCHANGED << jwt_refresh_timer, jwt_lock, acquiring, timer_frame >>

\* refresh_jwt, l.167-169: the lock is taken and get_jwt is entered.
RefreshEnter(id) ==
    /\ pc # "idle"
    /\ id \in DOMAIN timers
    /\ timers[id] = "lock"
    /\ jwt_lock = None
    /\ jwt_lock' = Some(id)
    /\ acquiring' = acquiring \cup { id }
    /\ timers' = [timers EXCEPT ![id] = "get_jwt"]
    /\ UNCHANGED << jwt_refresh_timer, timer_frame >>

\* refresh_jwt, l.169-172: get_jwt returns, with either outcome.
RefreshRenewed(id) ==
    /\ pc # "idle"
    /\ id \in DOMAIN timers
    /\ timers[id] = "get_jwt"
    /\ acquiring' = acquiring \ { id }
    /\ timers' = [timers EXCEPT ![id] = "schedule"]
    /\ UNCHANGED << jwt_refresh_timer, jwt_lock, timer_frame >>

\* refresh_jwt, l.175-177: the next timer is created, stored in the global and
\* started; the lock is released.
RefreshSchedule(id) ==
    /\ pc # "idle"
    /\ id \in DOMAIN timers
    /\ timers[id] = "schedule"
    /\ Len(timers) < MaxTimers
    /\ timers' = Append([timers EXCEPT ![id] = "done"], "waiting")
    /\ jwt_refresh_timer' = Some(Len(timers) + 1)
    /\ jwt_lock' = None
    /\ UNCHANGED << acquiring, timer_frame >>

NextJwt ==
    \/ JwtCall
    \/ \E ok \in BOOLEAN : JwtReturn(ok)
    \/ StartJwtRefreshTimer
    \/ \E expired \in BOOLEAN : FetchSites(expired)
    \/ \E ok \in BOOLEAN : FetchRenewed(ok)
    \/ MainDone
    \/ SignalHandler
    \/ StopCancel
    \/ StopClear
    \/ SignalExit
    \/ ProcessExit
    \/ \E id \in 1..MaxTimers : TimerFire(id)
    \/ \E id \in 1..MaxTimers : RefreshEnter(id)
    \/ \E id \in 1..MaxTimers : RefreshRenewed(id)
    \/ \E id \in 1..MaxTimers : RefreshSchedule(id)

SpecJwt == InitJwt /\ [][NextJwt]_vars

\* ---------------------------------------------------------------------------
\* C21
\* ---------------------------------------------------------------------------

NotAccepted(all_data, k) ==
    \E n \in DOMAIN all_data[k].stations :
        all_data[k].stations[n].update_status # "accepted"

\* C21: the listing holds exactly the ledger's sites with a station whose
\* status is not accepted, each once; a site's four counts are the numbers of
\* its stations with each status and add up to its number of stations; and the
\* sites come most recently updated first.
C21_ListingOfOutstandingSites ==
    pc = "retry_listed" =>
        /\ { retry_sites[n].site_key : n \in DOMAIN retry_sites }
               = { k \in DOMAIN ledger : NotAccepted(ledger, k) }
        /\ \A n \in DOMAIN retry_sites :
              LET site == retry_sites[n]
                  stations == ledger[site.site_key].stations
              IN  /\ site.pending = CountStatus(stations, "pending")
                  /\ site.rejected = CountStatus(stations, "rejected")
                  /\ site.errored = CountStatus(stations, "error")
                  /\ site.accepted = CountStatus(stations, "accepted")
                  /\ site.pending + site.rejected + site.errored + site.accepted
                        = Len(stations)
                  /\ site.total_stations = Len(stations)
                  /\ site.last_updated = ledger[site.site_key].last_updated
        /\ \A n, m \in DOMAIN retry_sites :
              n < m => /\ retry_sites[n].site_key # retry_sites[m].site_key
                       /\ retry_sites[n].last_updated > retry_sites[m].last_updated

\* Two sites listed, the second-saved one first, one of them with an accepted
\* station next to an open one.
C21_Witness ==
    /\ pc = "retry_listed"
    /\ Len(retry_sites) = 2
    /\ retry_sites[1].site_key = "0051-09"
    /\ retry_sites[2].accepted = 1
    /\ retry_sites[2].errored = 1

\* ---------------------------------------------------------------------------
\* C22
\* ---------------------------------------------------------------------------

\* A step that sends set_configuration(pfid, "PricingSchedule", ...): a pass of
\* one of the two update loops, whether the reply is classified or kills the
\* invocation.
ScheduleWrite ==
    /\ pc \in { "update", "retry_update" }
    /\ i' = i + 1 \/ exit_code' = "crash"

\* A step that sends set_configuration(pfid, "PricingScheduleEnable", "true").
EnableWrite == pc = "scan_enable" /\ pc' = "scan_schedule"

\* The operator answers the prompt of the batch with something else than yes.
Declines ==
    /\ pc \in { "confirm", "retry_confirm" }
    /\ do_update' = Some(FALSE)

Gated ==
    /\ ScheduleWrite => do_update = Some(TRUE)
    /\ Declines => ledger' = ledger /\ writes' = writes
    /\ (do_update = Some(FALSE) /\ do_update' = do_update) =>
           ~ScheduleWrite /\ ledger' = ledger

\* C22 (as stated): no write-config call at all, the enable write of the scan
\* included, is sent before the operator answered yes for the batch; after
\* another answer nothing is written and the ledger stays as it is.
C22_NoWriteBeforeYes ==
    [][Gated /\ (EnableWrite => do_update = Some(TRUE))]_vars

\* C22 (amended): every write of the schedule, in the scan flow and in the
\* retry flow, is sent in a batch for which the operator answered yes; after
\* another answer no schedule is written and the ledger stays as it is.  The
\* enable write of the scan is not covered.
C22_ScheduleWriteOnlyAfterYes == [][Gated]_vars

\* The scan sent an enable write, the operator said yes, and a schedule write
\* of the batch has been classified.
C22_Witness ==
    /\ pc = "update"
    /\ do_update = Some(TRUE)
    /\ writes # << >>
    /\ i > 1

\* ---------------------------------------------------------------------------
\* C23, C24
\* ---------------------------------------------------------------------------

\* A renewal task is active: a timer waits or its callback runs.
RenewalActive ==
    \E id \in DOMAIN timers : timers[id] \in { "waiting", "lock", "get_jwt", "schedule" }

\* C23: at most one thread is inside get_jwt at any time, and a thread that
\* is inside get_jwt while a renewal task is active holds the renewal lock.
C23_OneAcquisitionAtATime ==
    /\ Cardinality(acquiring) <= 1
    /\ \A t \in acquiring : RenewalActive => jwt_lock = Some(t)

\* stop_jwt_refresh_timer has returned, in the handler or in the cleanup.
StopReturned == pc \in { "stopped", "sig_stopped" }

\* C24: once stop_jwt_refresh_timer has returned no timer waits, and none
\* is created for as long as the process lives.
C24_NoTimerAfterStop ==
    /\ [](StopReturned => \A id \in DOMAIN timers : timers[id] # "waiting")
    /\ [][StopReturned /\ pc' # "idle" => Len(timers') = Len(timers)]_vars

\* ---------------------------------------------------------------------------
\* C25
\* ---------------------------------------------------------------------------

\* The sweep ends with status 1 where it asks for the directory.
DirectoryFailure == pc = "expand" /\ exit_code' = "1"

\* C25: a directory failure during the expansion ends the invocation before
\* any child scope is scanned, and leaves the progress file as it is: when the
\* sweep is a resumed one, the file still holds what the sweep was resumed
\* from.
C25_DirectoryFailureKeepsCheckpoint ==
    [][DirectoryFailure =>
         /\ pc' = "idle"
         /\ scanned = << >> /\ scanned' = << >>
         /\ progressFile' = progressFile
         /\ ledger' = ledger
         /\ resume_progress # None => progressFile' = resume_progress[1]]_vars

\* A resumed sweep has ended with status 1 and the checkpoint with its
\* completed child scope is still there.
C25_Witness ==
    /\ pc = "idle"
    /\ exit_code = "1"
    /\ progressFile.kind = "json"
    /\ progressFile.completed_accs = << "09" >>

\* ---------------------------------------------------------------------------
\* C26
\* ---------------------------------------------------------------------------

\* get_jwt fails at startup, in scan mode or in retry mode.
CredentialFailure == pc \in { "jwt", "retry_jwt" } /\ exit_code' = "1"

\* C26: a credential failure at startup ends the invocation with status 1
\* and with the progress file and the ledger as they were when the invocation
\* began: nothing is written by the step, and a progress file the invocation
\* found at its start is still there with the same content.
C26_CredentialFailureKeepsFiles ==
    [][CredentialFailure =>
         /\ pc' = "idle"
         /\ progressFile' = progressFile
         /\ ledger' = ledger
         /\ found # None => progressFile' = found[1]]_vars

\* ---------------------------------------------------------------------------
\* C27
\* ---------------------------------------------------------------------------

\* A cached copy exists, is younger than the maximum age, and no refresh is
\* forced.
CacheUsable ==
    /\ cacheFile.kind = "json"
    /\ cacheFile.age < CACHE_MAX_AGE_DAYS
    /\ ~refresh

\* C27: with a usable cache, an empty one included, get_site_data returns
\* the cached rows and contacts nobody; otherwise it contacts the service and
\* what it returns are the rows it fetched.
C27_CacheServedWhenFresh ==
    [][pc = "get_site_data" =>
         IF CacheUsable
           THEN /\ calls' = calls
                /\ pc' = "got_site_data"
                /\ site_rows' = cacheFile.rows
           ELSE /\ calls' = Append(calls, "directory")
                /\ pc' = "got_site_data" => site_rows' = cacheFile'.rows]_vars

\* ---------------------------------------------------------------------------
\* C28, C29
\* ---------------------------------------------------------------------------

Levels == << "acn", "acc", "acg", "acs" >>

Modes == << "acn-only", "acn-acc", "acn-acc-acg", "acn-acc-acg-acs" >>

Depth(tokens) == IF Len(tokens) < 4 THEN Len(tokens) ELSE 4

\* The scope the tokens name: the first four, level by level.
ScopeOf(tokens) ==
    [ acn |-> IF Len(tokens) >= 1 THEN Some(tokens[1]) ELSE None,
      acc |-> IF Len(tokens) >= 2 THEN Some(tokens[2]) ELSE None,
      acg |-> IF Len(tokens) >= 3 THEN Some(tokens[3]) ELSE None,
      acs |-> IF Len(tokens) >= 4 THEN Some(tokens[4]) ELSE None,
      mode |-> Some(Modes[Depth(tokens)]) ]

\* The tokens the arguments of the invocation spell, in any of the spellings.
Spelled == { tokens \in TokenSeqs : tokens # << >> /\ argv \in Spellings(tokens) }

\* C28: whatever mixture of blanks and hyphens separates the tokens, the
\* parsed scope has the first one to four tokens level by level, nothing at
\* the deeper levels, and the mode of the deepest level given; the key is the
\* given levels joined by hyphens; parsing the key gives the scope back; and
\* no other scope has the same key.
C28_ScopeAndKeyRoundTrip ==
    pc \in { "parsed", "keyed" } =>
        /\ Spelled # {}
        /\ \A tokens \in Spelled :
              /\ \A n \in 1..4 :
                    pfid_info[Levels[n]] = IF n <= Len(tokens) THEN Some(tokens[n])
                                           ELSE None
              /\ pfid_info.mode = Some(Modes[Depth(tokens)])
              /\ pc = "keyed" =>
                    /\ site_key = JoinWith(SubSeq(tokens, 1, Depth(tokens)), "-")
                    /\ parse_pfid_input(pfid_parts(<< site_key >>)) = pfid_info
                    /\ \A other \in TokenSeqs :
                          (/\ other # << >>
                           /\ get_site_key(other[1], ScopeOf(other).acc, ScopeOf(other).acg,
                                           ScopeOf(other).acs, ScopeOf(other).mode)
                                 = site_key)
                          => ScopeOf(other) = pfid_info

\* Three tokens given as one argument and one hyphenated pair have been
\* parsed and keyed.
C28_Witness ==
    /\ pc = "keyed"
    /\ argv = << "0051", "09-0051" >>
    /\ site_key = "0051-09-0051"
    /\ pfid_info.mode = Some("acn-acc-acg")

\* The arguments hold no token of a scope: each is an option or consists of
\* separators only.
NoScopeToken ==
    \A n \in DOMAIN argv :
        \/ startswith(argv[n], "--")
        \/ \A k \in 1..Len(argv[n]) : SubSeq(argv[n], k, k) \in { " ", "-" }

\* C29: an invocation not in retry mode whose arguments hold no scope token
\* ends with status 1 at once: no credential is acquired, no timer started,
\* no service called, and the progress file and the ledger are as they were.
C29_InvalidScopeExitsFirst ==
    [][(pc = "main" /\ NoScopeToken /\ "--retry" \notin Range(argv)) =>
         /\ pc' = "idle"
         /\ exit_code' = "1"
         /\ progressFile' = progressFile
         /\ ledger' = ledger
         /\ calls' = << >>
         /\ acquiring' = {}
         /\ timers' = << >>]_vars

\* An invocation with an option only has ended with status 1, the checkpoint
\* and the ledger of earlier runs in place.
C29_Witness ==
    /\ pc = "idle"
    /\ exit_code = "1"
    /\ argv = << "--verbose" >>
    /\ progressFile.kind = "json"
    /\ ledger # EmptyLedger

\* ---------------------------------------------------------------------------
\* C30
\* ---------------------------------------------------------------------------

\* C30: the ACC list holds exactly the ACC ids of the rows of the ACN (a row
\* without one gives none, rows of other ACNs give nothing), each once, in
\* ascending lexicographic order.
C30_DistinctSortedAccs ==
    pc = "got_accs" =>
        /\ Range(accs) = { site_rows[n].acc_id :
                             n \in { m \in DOMAIN site_rows :
                                       /\ site_rows[m].acn_id = pfid_info.acn[1]
                                       /\ site_rows[m].acc_id # "" } }
        /\ \A n, m \in DOMAIN accs :
              n < m => /\ accs[n] # accs[m]
                       /\ str_lt(accs[n], accs[m])

\* Rows listing 2, 12 and 100 in that order give 100, 12, 2.
C30_Witness ==
    /\ pc = "got_accs"
    /\ pfid_info.acn = Some("0051")
    /\ site_rows = << [acn_id |-> "0051", acc_id |-> "2"],
                      [acn_id |-> "0051", acc_id |-> "12"],
                      [acn_id |-> "0051", acc_id |-> "100"] >>
    /\ accs = << "100", "12", "2" >>

\* ---------------------------------------------------------------------------
\* C31
\* ---------------------------------------------------------------------------

\* The results that were there before the scan of the scope: those of other
\* child scopes.
Gathered == SelectSeq(all_results, LAMBDA r : r.acc_id # pfid_info.acc[1])

\* The results of the scope of the scan.
Reported == SelectSeq(all_results, LAMBDA r : r.acc_id = pfid_info.acc[1])

\* The listing of the scope, as the dashboard gives it.
Listed == StationData(pfid_info.acn[1], pfid_info.acc[1])

\* The pfids of the listing of another type, or not under the prefix of an
\* ACG or ACS scope.
NotToReport ==
    { Listed[n].pfid : n \in { m \in DOMAIN Listed :
        \/ Listed[m].evse_type # "LiteON"
        \/ /\ pfid_info.acg # None
           /\ ~startswith(Listed[m].pfid,
                  build_pfid_prefix(pfid_info.acn[1], pfid_info.acc, pfid_info.acg,
                                    pfid_info.acs)) } }

\* C31: a scan that returns leaves what was gathered before as it was, at the
\* head of the results, followed by one result per station to check, in the
\* order of the listing; no station of another type and none outside the
\* prefix is among them; and no step of the scan touches a result that is
\* already there.
C31_OnlySupportedAndAccumulating ==
    /\ [](pc = "scan_done" =>
            /\ all_results = Gathered \o Reported
            /\ Gathered \in GatheredResults
            /\ Len(Reported) = IF i > 1 THEN Len(Candidates) ELSE 0
            /\ \A n \in DOMAIN Reported : Reported[n].pfid = Candidates[n].pfid
            /\ \A n \in DOMAIN Reported : Reported[n].pfid \notin NotToReport)
    /\ [][(pc # "idle" /\ pc' # "idle") => IsPrefix(all_results, all_results')]_vars

\* The scan of child 02 has returned: the result of child 01 is where it was
\* and the three stations to check of 02 follow, the one of another type not.
C31_Witness ==
    /\ pc = "scan_done"
    /\ Len(all_results) = 4
    /\ all_results[1].pfid = "0060-01-01-01"
    /\ all_results[2].pfid = "0060-02-01-02"
    /\ all_results[4].pfid = "0060-02-011-01"

\* ---------------------------------------------------------------------------
\* C32
\* ---------------------------------------------------------------------------

\* The pfids of the scan results with verdict deviating, in order.
Deviating ==
    LET odd == SelectSeq(all_results, LAMBDA r : r.all_correct = "False")
    IN  [n \in DOMAIN odd |-> odd[n].pfid]

\* The results have been printed: with no deviating station the ledger is
\* left as it is, otherwise the entry of the scope lists the deviating
\* stations and nothing else.
RecordsDeviatingOnly ==
    (pc = "results" /\ exit_code' # "sigint") =>
        IF Deviating = << >>
          THEN ledger' = ledger
          ELSE /\ pc' = "confirm"
               /\ [n \in DOMAIN ledger'[site_key'].stations |->
                     ledger'[site_key'].stations[n].pfid] = Deviating
               /\ \A k \in DOMAIN ledger : k # site_key' => ledger'[k] = ledger[k]

\* The update loop of the scan flow is left, not by SIGINT: the stations
\* written to are the deviating ones.
\* A step that ends in the exception has sent its write before.
WritesDeviatingOnly ==
    (pc = "update" /\ pc' # pc /\ exit_code' # "sigint") =>
        LET classified == [n \in DOMAIN writes |-> writes[n].pfid]
            received == IF exit_code' = "crash"
                          THEN Append(classified, odd_ones[i].pfid)
                          ELSE classified
        IN  received = Deviating

\* C32: in the scan flow the stations recorded in the ledger are exactly the
\* deviating ones, a scan without deviating stations leaves the ledger as it
\* is, and the stations of a confirmed batch that receive the schedule are
\* exactly the deviating ones.
C32_OnlyDeviatingRecordedAndWritten ==
    [][RecordsDeviatingOnly /\ WritesDeviatingOnly]_vars

\* ---------------------------------------------------------------------------
\* C33
\* ---------------------------------------------------------------------------

\* Every entry of the ledger but the one under key is as it was.
OtherScopesKept(key) ==
    \A k \in DOMAIN ledger \ { key } : k \in DOMAIN ledger' /\ ledger'[k] = ledger[k]

\* The record of the station of this step: the first one with its pfid.
Target ==
    LET stations == ledger[site_key].stations
    IN  CHOOSE n \in DOMAIN stations :
           /\ stations[n].pfid = Batch[i].pfid
           /\ \A m \in 1..(n - 1) : stations[m].pfid # Batch[i].pfid

\* The entry and the record with the fields update_status may set put back.
EntryBut(entry, last_updated, stations) ==
    [entry EXCEPT !.last_updated = last_updated, !.stations = stations]

RecordBut(record, other) ==
    [record EXCEPT !.update_status = other.update_status,
                   !.rejection_reason = other.rejection_reason,
                   !.last_attempt = other.last_attempt]

OnlyTargetTouched ==
    /\ OtherScopesKept(site_key)
    /\ site_key \in DOMAIN ledger'
    /\ LET old == ledger[site_key]
           new == ledger'[site_key]
       IN  /\ EntryBut(new, old.last_updated, old.stations) = old
           /\ new.correct_schedule = old.correct_schedule
           /\ DOMAIN new.stations = DOMAIN old.stations
           /\ \A n \in DOMAIN old.stations :
                 IF n = Target
                   THEN RecordBut(new.stations[n], old.stations[n]) = old.stations[n]
                   ELSE new.stations[n] = old.stations[n]

\* C33: the upsert of a scope leaves the entries of all other scopes as they
\* were, and the status update of a station changes nothing but the status,
\* the detail and the time of the last attempt of that station's record and
\* the time of the last update of its scope.
C33_LedgerOperationsTouchOnlyTheirTarget ==
    [][/\ UpsertStep => OtherScopesKept(site_key')
       /\ (WriteStep /\ HasRecord(ledger, site_key, Batch[i].pfid)) => OnlyTargetTouched]_vars

\* The second station of a batch is up, the first one has its outcome, the
\* second is still pending, and the ledger holds another scope as well.
C33_Witness ==
    /\ pc = "update"
    /\ i = 2
    /\ Len(odd_ones) = 2
    /\ site_key \in DOMAIN ledger
    /\ DOMAIN ledger # { site_key }
    /\ Len(ledger[site_key].stations) = 2
    /\ ledger[site_key].stations[1].update_status # "pending"
    /\ ledger[site_key].stations[2].update_status = "pending"

\* ---------------------------------------------------------------------------
\* C34
\* ---------------------------------------------------------------------------

\* A schedule is conforming: it is not empty and every factor is 0.5.
Conforming(schedule) ==
    /\ schedule # << >>
    /\ \A n \in DOMAIN schedule : schedule[n].f = EXPECTED_F

BuiltInSchedule ==
    << [t |-> 0, f |-> 5], [t |-> 4, f |-> 5], [t |-> 8, f |-> 5],
       [t |-> 16, f |-> 5], [t |-> 20, f |-> 5] >>

\* The schedule the first conforming station of the scan was seen with, the
\* built-in one when the scan saw no conforming station.
FirstConformingOrBuiltIn ==
    LET conforming == SelectSeq(all_results, LAMBDA r : r.all_correct = "True")
    IN  IF conforming = << >> THEN BuiltInSchedule ELSE conforming[1].schedule[1]

\* C34: the schedule of every ledger entry and the value of every write of
\* the update loop and of the retry loop is conforming; in the scan flow it
\* is the schedule of the first conforming station of the scan, or the
\* built-in one.
C34_CorrectiveScheduleConforms ==
    /\ \A k \in DOMAIN ledger : Conforming(ledger[k].correct_schedule)
    /\ \A n \in DOMAIN writes : Conforming(writes[n].value)
    /\ pc \in { "confirm", "update" } =>
          /\ correct_schedule = FirstConformingOrBuiltIn
          /\ ledger[site_key].correct_schedule = correct_schedule
          /\ \A n \in DOMAIN writes : writes[n].value = correct_schedule

\* A station has been written the schedule a conforming station of the scan
\* was seen with, which is not the built-in one, and the ledger stores it.
C34_Witness ==
    /\ pc = "update"
    /\ writes # << >>
    /\ writes[1].value # BuiltInSchedule
    /\ Conforming(writes[1].value)
    /\ ledger[site_key].correct_schedule = writes[1].value
    /\ \E n \in DOMAIN all_results :
          /\ all_results[n].all_correct = "True"
          /\ all_results[n].schedule = << writes[1].value >>

\* ---------------------------------------------------------------------------
\* C35
\* ---------------------------------------------------------------------------

NoDuplicates(seq) ==
    \A m, n \in DOMAIN seq : seq[m] = seq[n] => m = n

\* The checkpoint against the ACCs the directory gives for the ACN now.
WellFormed(checkpoint, expansion) ==
    /\ NoDuplicates(checkpoint.completed_accs)
    /\ \A n \in DOMAIN checkpoint.completed_accs :
          \E m \in DOMAIN expansion : expansion[m] = checkpoint.completed_accs[n]
    /\ Len(checkpoint.completed_accs) <= checkpoint.total_accs
    /\ \A n \in DOMAIN checkpoint.results :
          \E m \in DOMAIN checkpoint.completed_accs :
             checkpoint.completed_accs[m] = checkpoint.results[n].acc_id

\* save_progress of the sweep loop has written the file.
CheckpointPersisted == pc = "save_dump" /\ pc' = "sweep"

\* C35: every checkpoint a sweep writes lists every completed ACC once, lists
\* only ACCs of the ACN's present expansion, no more of them than
\* total_accs, and holds results of completed ACCs only.
C35_CheckpointWellFormed ==
    [][CheckpointPersisted => WellFormed(progressFile', accs)]_vars

\* ---------------------------------------------------------------------------
\* C36
\* ---------------------------------------------------------------------------

\* The loop over the batch is over.
BatchComplete ==
    /\ pc \in { "update", "retry_update" }
    /\ i > Len(Batch)

\* How many stations of the batch the ledger has with one of the statuses.
BatchWithStatus(statuses) ==
    Cardinality({ n \in DOMAIN Batch :
                    StationRecord(ledger, site_key, Batch[n].pfid).update_status
                       \in statuses })

\* C36: when the loop over a batch is over, accepted_count is the number of
\* stations of the batch the ledger has as accepted and rejected_count the
\* number it has as rejected or error.
C36_CountsAgreeWithLedger ==
    BatchComplete =>
        /\ accepted_count = BatchWithStatus({ "accepted" })
        /\ rejected_count = BatchWithStatus({ "rejected", "error" })
====
